---- MODULE Spec2Model ----
(***************************************************************************)
(* Verification session orchestration of the Vocera front end.             *)
(*                                                                         *)
(* Two versions of the home screen drive a verification session:           *)
(*   screen = "marker"  the ENTER/countdown flow (startRecordingFlow,      *)
(*                      handleEnterPressed, handleStopRecording,           *)
(*                      processRecording, resetToInitial);                 *)
(*   screen = "auto"    the logo-press flow (handleLogoPress,              *)
(*                      handleNameSubmit, handleStopRecording,             *)
(*                      handleRecordingComplete, handleResetAnimation).    *)
(* Both use the services audioUtils, openaiService, deepfakeService /      *)
(* herokuService, supabaseService and the zustand store.                   *)
(*                                                                         *)
(* Every await of a handler is a suspension point: the handler is cut into *)
(* one action per await, and user events and timers interleave between.    *)
(* Confidences are kept as whole numbers (hundredths where the service     *)
(* reports a fraction); durations and clock readings are milliseconds.     *)
(***************************************************************************)
EXTENDS Integers, Sequences, FiniteSets, TLC

\* ------------------------------------------------------------------ bounds
MaxSessions == 2
MaxNow == 3
MaxTimers == 1
MaxRuns == 1

\* ------------------------------------------------------- program constants
COUNTDOWN_START == 8
CALLER_SPEAKING_AT == 6
RECORDING_TIME == 5
SHOW_TEXT_AT == 2
SEGMENT_SECONDS == 5
BYTES_PER_SECOND == 176400

\* ------------------------------------------------------------ value spaces
NullRec == [null |-> TRUE]
NullUri == <<"null", 0>>
NullUser == "null"
NullTime == 0

RecUri(n) == <<"rec", n>>
SegUri(u) == <<"seg", u[2]>>

\* caller names as the list of their whitespace-separated words
Names == {<<>>, <<"Bo">>, <<"Ann", "Lee">>}
Profiles == {<<"Ann", "Lee">>}
UserIdOf(name) == "target-1"

Texts == {"", "hello", "Transcription failed"}
SvcConfidences == {0, 82}
MockConfidences == {70}
\* file sizes in bytes: a 3 second and a 12 second recording
Sizes == {3 * BYTES_PER_SECOND, 12 * BYTES_PER_SECOND}

\* what the transcription endpoint can answer
WhisperResponses ==
  {[kind |-> "http", status |-> 200, body |-> t] : t \in Texts}
  \cup {[kind |-> "http", status |-> 500, body |-> ""],
        [kind |-> "timeout", status |-> 0, body |-> ""]}

\* what the /detect endpoint can answer: a well-formed body, a body without
\* the two typed fields, or no answer (network error, timeout, non-2xx)
DetectResponses ==
  {[kind |-> "ok", prediction |-> p, confidence |-> c] :
      p \in BOOLEAN, c \in SvcConfidences}
  \cup {[kind |-> "malformed", prediction |-> FALSE, confidence |-> 0],
        [kind |-> "error", prediction |-> FALSE, confidence |-> 0]}

\* what the Heroku /verify endpoint can answer
VerifyResponses ==
  {[kind |-> "http", status |-> 200, json |-> "object",
    hasPrediction |-> TRUE, prediction |-> p,
    hasConfidence |-> TRUE, confidence |-> c] :
      p \in BOOLEAN, c \in SvcConfidences}
  \cup {[kind |-> "http", status |-> 200, json |-> "object",
         hasPrediction |-> FALSE, prediction |-> FALSE,
         hasConfidence |-> FALSE, confidence |-> 0],
        [kind |-> "http", status |-> 200, json |-> "unparsable",
         hasPrediction |-> FALSE, prediction |-> FALSE,
         hasConfidence |-> FALSE, confidence |-> 0],
        [kind |-> "http", status |-> 500, json |-> "object",
         hasPrediction |-> FALSE, prediction |-> FALSE,
         hasConfidence |-> FALSE, confidence |-> 0],
        [kind |-> "error", status |-> 0, json |-> "object",
         hasPrediction |-> FALSE, prediction |-> FALSE,
         hasConfidence |-> FALSE, confidence |-> 0]}

Min(a, b) == IF a <= b THEN a ELSE b
Max(a, b) == IF a >= b THEN a ELSE b

VARIABLES
  screen,                 \* which version of the home screen is mounted
  \* ---- React state shared by both screens
  currentStep, callerName, nameError, verificationResult,
  \* ---- store (zustand)
  currentTranscript, savedCalls, targetUserId,
  \* ---- marker screen
  isRecording, recordingStartTime, callerPhraseTime, countdown, fullAudioUri,
  timerRef, countdownInterval, startPc,
  \* ---- auto screen
  isAnimated, showNameInput, nameSubmitted, recordingTimeLeft,
  showRecordingText, recordingTimerRef, currentTargetUserIdRef,
  intervals, nextTimer, startTimeouts, logoTimeout, resetTimeout, submit,
  \* ---- in-flight handler invocations
  stopPc, proc, trLeg,
  \* ---- environment
  recorder, files, tempDir, results, alert, now, sessions, runs,
  \* ---- components outside the two home screens
  rec,                    \* Recorder component and the useAudioRecorder hook
  enroll,                 \* record tab (voice enrolment)
  wizard,                 \* Vox Key wizard screen
  api,                    \* axios client of VoceraAPI
  hist                    \* bookkeeping of the saved-call list operations

shared == <<currentStep, callerName, nameError, verificationResult>>
store == <<currentTranscript, savedCalls, targetUserId>>
markerVars == <<isRecording, recordingStartTime, callerPhraseTime, countdown,
                fullAudioUri, timerRef, countdownInterval, startPc>>
autoVars == <<isAnimated, showNameInput, nameSubmitted, recordingTimeLeft,
              showRecordingText, recordingTimerRef, currentTargetUserIdRef,
              intervals, nextTimer, startTimeouts, logoTimeout, resetTimeout,
              submit>>
flight == <<stopPc, proc, trLeg>>
envVars == <<recorder, files, tempDir, results, now, sessions, runs>>
comp == <<rec, enroll, wizard, api, hist>>
vars == <<comp, screen, shared, store, markerVars, autoVars, flight, envVars,
          alert>>

\* ------------------------------------------------------------- file system
Exists(uri) == \E f \in files : f.uri = uri
SizeOf(uri) == (CHOOSE f \in files : f.uri = uri).size

\* audioUtils.getAudioDuration: size / 176400 seconds, 0 when the file is
\* missing, empty or unreadable; never throws.  Result in milliseconds.
getAudioDuration(audioUri, readOk) ==
  IF readOk /\ Exists(audioUri) /\ SizeOf(audioUri) # 0
    THEN Max((SizeOf(audioUri) * 1000) \div BYTES_PER_SECOND, 0)
    ELSE 0

\* the duration audioUtils.segmentAudio reports (milliseconds)
segmentDuration(startMs, endMs, hasEnd, totalMs) ==
  IF hasEnd /\ endMs # 0
    THEN Min(endMs - startMs, totalMs - startMs)
    ELSE Min(SEGMENT_SECONDS * 1000, totalMs - startMs)

\* audioUtils.segmentAudio: ensureTempDirectory, copyAsync, duration.
\* dirOk: getInfoAsync / makeDirectoryAsync did not throw; copyOk: copyAsync
\* did not throw; readOk: the size of the file could be read.
\* Returns the segment (or NullRec) and the temp directory afterwards.
segmentAudio(audioUri, startMs, endMs, hasEnd, dirOk, copyOk, readOk) ==
  LET dirAfter == IF dirOk THEN [exists |-> TRUE, entries |-> tempDir.entries]
                           ELSE tempDir
  IN IF dirOk /\ copyOk /\ Exists(audioUri)
       THEN [segment |-> [uri |-> SegUri(audioUri),
                          duration |-> segmentDuration(startMs, endMs, hasEnd,
                                          getAudioDuration(audioUri, readOk))],
             dir |-> [exists |-> TRUE,
                      entries |-> tempDir.entries \cup {SegUri(audioUri)}]]
       ELSE [segment |-> NullRec, dir |-> dirAfter]

\* a variant of extractLast5Seconds without the short-recording branch
extractAlwaysCopies(audioUri, dirOk, copyOk, readOk, readAgainOk) ==
  LET totalDuration == getAudioDuration(audioUri, readOk)
  IN segmentAudio(audioUri, Max(totalDuration - SEGMENT_SECONDS * 1000, 0),
                  totalDuration, TRUE, dirOk, copyOk, readAgainOk)

\* audioUtils.extractLast5Seconds.  The size of the file is read twice: by
\* extractLast5Seconds itself (readOk) and again inside segmentAudio
\* (readAgainOk).
extractLast5Seconds(audioUri, dirOk, copyOk, readOk, readAgainOk) ==
  LET totalDuration == getAudioDuration(audioUri, readOk)
  IN IF totalDuration <= SEGMENT_SECONDS * 1000
       THEN [segment |-> [uri |-> audioUri, duration |-> totalDuration],
             dir |-> tempDir]
       ELSE segmentAudio(audioUri, totalDuration - SEGMENT_SECONDS * 1000,
                         totalDuration, TRUE, dirOk, copyOk, readAgainOk)

\* a cleanup that empties temp_audio/ by making it anew instead of deleting it
cleanupRecreates(dir, ioOk) ==
  IF ioOk THEN [exists |-> TRUE, entries |-> {}] ELSE dir

\* audioUtils.cleanupTempFiles: deletes temp_audio/ when it exists; every
\* error is swallowed.  ioOk = getInfoAsync and deleteAsync did not throw.
cleanupTempFiles(dir, ioOk) ==
  IF ioOk /\ dir.exists THEN [exists |-> FALSE, entries |-> {}] ELSE dir

\* useAudioRecorder.cancelRecording: when the device is recording, stop it
\* and deleteAsync(uri, {idempotent: true}); errors are swallowed and the
\* finally block clears the recording flag.  st = [recorder, files,
\* isRecording]; a stopped recording is a file of `size` bytes until deleted.
cancelRecording(st, size, stopOk, delOk) ==
  IF ~st.recorder.recording
    THEN [st EXCEPT !.isRecording = FALSE]
  ELSE IF ~stopOk
    THEN [st EXCEPT !.isRecording = FALSE]
  ELSE [recorder |-> [st.recorder EXCEPT !.recording = FALSE],
        files |-> IF delOk \/ st.recorder.uri = NullUri
                    THEN {f \in st.files : f.uri # st.recorder.uri}
                    ELSE {f \in st.files : f.uri # st.recorder.uri}
                           \cup {[uri |-> st.recorder.uri, size |-> size]},
        isRecording |-> FALSE]

\* ----------------------------------------------------------------- services
\* OpenAIService.transcribeAudio: resolves with the body on status 200 and
\* rejects in every other case (no key, missing file, status, network).
transcribeAudio(configured, exists, resp) ==
  IF ~configured THEN [state |-> "failed", text |-> "", reason |-> "config"]
  ELSE IF ~exists THEN [state |-> "failed", text |-> "", reason |-> "nofile"]
  ELSE IF resp.kind = "timeout"
    THEN [state |-> "failed", text |-> "", reason |-> "timeout"]
  ELSE IF resp.status = 200
    THEN [state |-> "ok", text |-> resp.body, reason |-> ""]
  ELSE [state |-> "failed", text |-> "", reason |-> "status"]

\* DeepfakeService.getMockResponse: a random verdict, confidence 0.7 .. 1.0
MockResponses ==
  {[prediction |-> p, confidence |-> c] : p \in BOOLEAN, c \in MockConfidences}

\* DeepfakeService.detectDeepfake: the validated body, and on any failure
\* (network, status, malformed body) the mock response.  Never throws.
detectDeepfake(resp, mock) ==
  IF resp.kind = "ok"
    THEN [prediction |-> resp.prediction, confidence |-> resp.confidence]
    ELSE mock

\* HerokuService.uploadWavFile: the parsed body on 200/201, throws otherwise
uploadWavFile(exists, resp) ==
  IF exists /\ resp.kind = "http" /\ resp.status \in {200, 201}
       /\ resp.json = "object"
    THEN [threw |-> FALSE, value |-> resp]
    ELSE [threw |-> TRUE, value |-> resp]

\* a lookup that queries with whatever words it is given
findUserAnyWords(name, queryOk) ==
  IF queryOk /\ name # <<>> THEN UserIdOf(name) ELSE NullUser

\* supabaseService.findUserByName: null unless the name has exactly two
\* words, the query succeeds and a row matches.
findUserByName(name, queryOk) ==
  IF Len(name) # 2 THEN NullUser
  ELSE IF queryOk /\ name \in Profiles THEN UserIdOf(name)
  ELSE NullUser

\* ------------------------------------------------------------------- store
Call(name, uri, transcript, confidence, verified) ==
  [name |-> name, audioUri |-> uri, transcript |-> transcript,
   confidence |-> confidence, verified |-> verified]

STORE_LIMIT == 50
\* the new call put behind the kept ones
addSavedCallAtEnd(calls, call) ==
  SubSeq(calls \o <<call>>, 1, Min(Len(calls) + 1, STORE_LIMIT))

addSavedCall(calls, call) == SubSeq(<<call>> \o calls, 1,
                                    Min(Len(calls) + 1, STORE_LIMIT))

\* ------------------------------------------------------------ reconcilers
\* processRecording step 6 (marker screen)
SENTINEL_MARKER == "Transcription failed"
CombineResults(deepfakeResult, transcript) ==
  [match |-> IF deepfakeResult # NullRec THEN ~deepfakeResult.prediction
                                         ELSE FALSE,
   confidence |-> IF deepfakeResult # NullRec THEN deepfakeResult.confidence
                                              ELSE 0,
   transcript |-> IF transcript # "" THEN transcript ELSE SENTINEL_MARKER,
   isDeepfake |-> IF deepfakeResult # NullRec THEN deepfakeResult.prediction
                                              ELSE FALSE]

\* handleRecordingComplete (auto screen): finalTranscript and finalResult
SENTINEL_AUTO == "Transcription unavailable"
FinalTranscript(fullTranscript) ==
  IF fullTranscript # "Transcription failed" THEN fullTranscript
                                             ELSE SENTINEL_AUTO
FinalResult(v, fullTranscript) ==
  [match |-> IF v.hasPrediction THEN ~v.prediction ELSE TRUE,
   confidence |-> IF v.hasConfidence THEN v.confidence ELSE 0,
   transcript |-> FinalTranscript(fullTranscript)]

\* ------------------------------------------------------------- initial state
IdleProc ==
  [pc |-> "idle", audioUri |-> NullUri,
   encl |-> [callerPhraseTime |-> NullTime, recordingStartTime |-> NullTime,
             callerName |-> <<>>],
   segmentedAudio |-> NullRec, segLeg |-> "none", targetUser |-> NullUser,
   deepfakeResult |-> NullRec, authLeg |-> "none", authValue |-> NullRec,
   fullTranscript |-> "", outcome |-> NullRec, persist |-> "none"]
IdleLeg == [state |-> "none", text |-> "", reason |-> ""]

\* ---- components before their first event
\* Recorder: useState(0) / useState(false) of the component and the hook, the
\* store's isRecording and recordingProgress, the two interval handles, the
\* native recorder, the handler invocations that are suspended at an await
IdleRec ==
  [permissionGranted |-> FALSE, startPc |-> "idle",
   isRecordingState |-> FALSE, isRecording |-> FALSE,
   recordingProgress |-> 0, progress |-> 0, intervalRef |-> FALSE,
   recordingDuration |-> 0, device |-> "idle", stops |-> <<>>,
   recordings |-> 0, stopCalls |-> 0, autoStops |-> 0, completes |-> 0,
   alerts |-> 0,
   lastReturn |-> "none"]
\* record tab: the store's user, the useState values of RecordClipsScreen,
\* the finger on the Pressable, the native recorder and its uri, the
\* invocations of handleStopRecording suspended at an await
IdleEnroll ==
  [user |-> FALSE, hasVoxKey |-> FALSE,
   recordedClips |-> 0, currentClipIndex |-> 0, isRecording |-> FALSE,
   timeLeft |-> 5, isUploading |-> FALSE,
   pressed |-> FALSE, startPc |-> "idle", device |-> FALSE, uriSet |-> FALSE,
   stops |-> <<>>, clipsThisRecording |-> 0, sends |-> 0,
   lastUpload |-> "none", returned |-> FALSE]
\* Vox Key wizard: the useState values of VoxKeyWizardScreen (the name as
\* "", a one letter name or a full name), the store's voxKeyProgress and
\* user.hasVoxKey, the open alert, the uploadVoxKey call of the current visit
\* to the completion step and the number of recordings it was given, the
\* embedded Recorder and the currentStep / recordings of the render in which
\* its duration effect was created
IdleWizard ==
  [currentStep |-> 0, userName |-> "", nameError |-> "", recordings |-> 0,
   isUploading |-> FALSE, voxKeyProgress |-> 0, hasVoxKey |-> FALSE,
   alertOpen |-> "none", upload |-> "none", uploadSize |-> 0,
   recorder |-> "idle",
   captured |-> [currentStep |-> 0, recordings |-> 0]]
\* API client: the requests of VoceraAPI that can be pending at the same
\* time, each with its axios config (_retry), the number of times it was
\* sent, the failures the interceptor saw and what the caller got
MaxRequests == 2
IdleRequest ==
  [pc |-> "idle", method |-> "none", retry |-> FALSE, attempts |-> 0,
   failures |-> 0, lastError |-> "none", result |-> "none", message |-> ""]
IdleApi == [k \in 1..MaxRequests |-> IdleRequest]
\* saved-call list: the next call id (Date.now().toString() of the caller)
\* and the number of removals so far
IdleHist == [nextId |-> 1, removes |-> 0]

IdleComp ==
  /\ rec = IdleRec /\ enroll = IdleEnroll /\ wizard = IdleWizard
  /\ api = IdleApi /\ hist = IdleHist

Mounted(s) ==
  /\ screen = s
  /\ currentStep = "initial" /\ callerName = <<>> /\ nameError = ""
  /\ verificationResult = NullRec
  /\ currentTranscript = "" /\ savedCalls = <<>> /\ targetUserId = NullUser
  /\ isRecording = FALSE /\ recordingStartTime = NullTime
  /\ callerPhraseTime = NullTime /\ countdown = 0 /\ fullAudioUri = NullUri
  /\ timerRef = 0 /\ countdownInterval = NullRec /\ startPc = "idle"
  /\ isAnimated = FALSE /\ showNameInput = FALSE /\ nameSubmitted = FALSE
  /\ recordingTimeLeft = RECORDING_TIME /\ showRecordingText = FALSE
  /\ recordingTimerRef = 0 /\ currentTargetUserIdRef = NullUser
  /\ intervals = {} /\ nextTimer = 1 /\ startTimeouts = <<>>
  /\ logoTimeout = FALSE /\ resetTimeout = FALSE
  /\ submit = [pc |-> "idle", name |-> <<>>]
  /\ stopPc = "idle" /\ proc = IdleProc /\ trLeg = IdleLeg
  /\ recorder = [recording |-> FALSE, uri |-> NullUri, made |-> 0]
  /\ files = {} /\ tempDir = [exists |-> FALSE, entries |-> {}]
  /\ results = <<>> /\ alert = "" /\ now = 1 /\ sessions = 0 /\ runs = 0
  /\ IdleComp

Init == \E s \in {"marker", "auto"} : Mounted(s)

\* ===================================================== marker screen
\* Date.now(): the clock never runs backwards
Clock(t) == t \in now..MaxNow /\ now' = t

\* resetToInitial.  timerRef is never assigned by this screen (the countdown
\* interval lives in a local constant of handleEnterPressed), so the
\* clearInterval branch has nothing to clear.
ResetToInitial ==
  /\ isRecording' = FALSE
  /\ recordingStartTime' = NullTime
  /\ callerPhraseTime' = NullTime
  /\ countdown' = 0
  /\ fullAudioUri' = NullUri
  /\ currentStep' = "initial"
  /\ callerName' = <<>>
  /\ verificationResult' = NullRec
  /\ currentTranscript' = ""
  /\ timerRef' = 0

\* handleStartVerification (the user has a Vox Key)
M_handleStartVerification ==
  /\ screen = "marker" /\ currentStep = "initial"
  /\ currentStep' = "name-entry"
  /\ UNCHANGED <<comp, screen, callerName, nameError, verificationResult, store,
                 markerVars, autoVars, flight, envVars, alert>>

\* the name field of the name-entry step
M_setCallerName(n) ==
  /\ screen = "marker" /\ currentStep = "name-entry"
  /\ callerName' = n
  /\ UNCHANGED <<comp, screen, currentStep, nameError, verificationResult, store,
                 markerVars, autoVars, flight, envVars, alert>>

\* Back button of the name-entry step
M_Back ==
  /\ screen = "marker" /\ currentStep = "name-entry"
  /\ currentStep' = "initial"
  /\ UNCHANGED <<comp, screen, callerName, nameError, verificationResult, store,
                 markerVars, autoVars, flight, envVars, alert>>

\* "Start Recording" button: with a name, step 'ready' and startRecordingFlow()
\* up to its await; without one, handleNameSubmit() reports the error.
M_StartRecordingPress ==
  /\ screen = "marker" /\ currentStep = "name-entry" /\ startPc = "idle"
  /\ IF callerName # <<>>
       THEN /\ sessions < MaxSessions
            /\ sessions' = sessions + 1
            /\ currentStep' = "ready"
            /\ startPc' = "preparing"
            /\ UNCHANGED nameError
       ELSE /\ nameError' = "Please enter the caller's name"
            /\ UNCHANGED <<sessions, currentStep, startPc>>
  /\ UNCHANGED <<comp, screen, callerName, verificationResult, store, isRecording,
                 recordingStartTime, callerPhraseTime, countdown, fullAudioUri,
                 timerRef, countdownInterval, autoVars, flight, recorder,
                 files, tempDir, results, now, runs, alert>>

\* startRecordingFlow after prepareToRecordAsync: record() and the three
\* setters, or the catch branch.  The device takes the request whether or
\* not it is already recording; nothing in the handler looks at that.
M_startRecordingFlow ==
  /\ screen = "marker" /\ startPc = "preparing"
  /\ startPc' = "idle"
  /\ \E prepared \in BOOLEAN, t \in now..MaxNow :
       IF prepared
         THEN /\ recorder' = [recording |-> TRUE,
                              uri |-> RecUri(recorder.made + 1),
                              made |-> recorder.made + 1]
              /\ isRecording' = TRUE
              /\ Clock(t)
              /\ recordingStartTime' = t
              /\ currentStep' = "recording"
              /\ UNCHANGED alert
         ELSE /\ alert' = "Could not start recording."
              /\ t = now
              /\ UNCHANGED <<recorder, isRecording, now, recordingStartTime,
                             currentStep>>
  /\ UNCHANGED <<comp, screen, callerName, nameError, verificationResult, store,
                 callerPhraseTime, countdown, fullAudioUri, timerRef,
                 countdownInterval, autoVars, flight, files, tempDir, results,
                 sessions, runs>>

\* "Change Name" button under the Recorder (steps 'ready' and 'recording')
M_ChangeName ==
  /\ screen = "marker" /\ currentStep \in {"ready", "recording"}
  /\ currentStep' = "name-entry"
  /\ UNCHANGED <<comp, screen, callerName, nameError, verificationResult, store,
                 markerVars, autoVars, flight, envVars, alert>>

\* handleEnterPressed.  The interval callback closes over the
\* handleStopRecording / processRecording of the render in which ENTER was
\* pressed, hence over that render's callerPhraseTime, recordingStartTime and
\* callerName: countdownInterval holds those values.
M_handleEnterPressed ==
  /\ screen = "marker" /\ currentStep = "recording"
  /\ IF ~isRecording
       THEN UNCHANGED <<callerPhraseTime, currentStep, countdown,
                        countdownInterval, now>>
       ELSE /\ \E t \in now..MaxNow : Clock(t) /\ callerPhraseTime' = t
            /\ currentStep' = "waiting-for-caller"
            /\ countdown' = COUNTDOWN_START
            /\ countdownInterval' =
                 [callerPhraseTime |-> callerPhraseTime,
                  recordingStartTime |-> recordingStartTime,
                  callerName |-> callerName]
  /\ UNCHANGED <<comp, screen, callerName, nameError, verificationResult, store,
                 isRecording, recordingStartTime, fullAudioUri, timerRef,
                 startPc, autoVars, flight, recorder, files, tempDir, results,
                 sessions, runs, alert>>

\* a countdown whose updater calls the stop one tick late (prev <= 0)
M_countdownTickLate ==
  /\ screen = "marker" /\ countdownInterval # NullRec
  /\ IF countdown <= 0
       THEN /\ stopPc = "idle" /\ proc.pc \in {"idle", "done"}
            /\ runs < MaxRuns
            /\ runs' = runs + 1
            /\ countdownInterval' = NullRec
            /\ stopPc' = "stopping"
            /\ proc' = [IdleProc EXCEPT !.encl = countdownInterval]
            /\ trLeg' = IdleLeg
            /\ countdown' = 0
            /\ UNCHANGED currentStep
       ELSE /\ countdown' = countdown - 1
            /\ currentStep' = IF countdown = CALLER_SPEAKING_AT
                                THEN "caller-speaking" ELSE currentStep
            /\ UNCHANGED <<countdownInterval, stopPc, proc, trLeg, runs>>
  /\ UNCHANGED <<comp, screen, callerName, nameError, verificationResult, store,
                 isRecording, recordingStartTime, callerPhraseTime,
                 fullAudioUri, timerRef, startPc, autoVars, recorder, files,
                 tempDir, results, now, sessions, alert>>

\* one firing of the countdown interval: the setCountdown updater.  At most
\* one handleStopRecording / processRecording is taken to be in flight.
M_countdownTick ==
  /\ screen = "marker" /\ countdownInterval # NullRec
  /\ IF countdown <= 1
       THEN /\ stopPc = "idle" /\ proc.pc \in {"idle", "done"}
            /\ runs < MaxRuns
            /\ runs' = runs + 1
            /\ countdownInterval' = NullRec
            /\ stopPc' = "stopping"
            /\ proc' = [IdleProc EXCEPT !.encl = countdownInterval]
            /\ trLeg' = IdleLeg
            /\ countdown' = 0
            /\ UNCHANGED currentStep
       ELSE /\ countdown' = countdown - 1
            /\ currentStep' = IF countdown = CALLER_SPEAKING_AT
                                THEN "caller-speaking" ELSE currentStep
            /\ UNCHANGED <<countdownInterval, stopPc, proc, trLeg, runs>>
  /\ UNCHANGED <<comp, screen, callerName, nameError, verificationResult, store,
                 isRecording, recordingStartTime, callerPhraseTime,
                 fullAudioUri, timerRef, startPc, autoVars, recorder, files,
                 tempDir, results, now, sessions, alert>>

\* handleStopRecording after audioRecorder.stop(): with a URI the recording
\* file exists and processRecording(uri) runs up to its first await (the
\* transcription request is issued first); without one nothing is done; a
\* throw resets the screen.
M_handleStopRecording ==
  /\ screen = "marker" /\ stopPc = "stopping"
  /\ stopPc' = "idle"
  /\ \E outcome \in {"uri", "nouri", "throw"}, size \in Sizes :
       CASE outcome = "uri" ->
              /\ recorder.uri # NullUri
              /\ recorder' = [recorder EXCEPT !.recording = FALSE]
              /\ files' = {f \in files : f.uri # recorder.uri}
                            \cup {[uri |-> recorder.uri, size |-> size]}
              /\ fullAudioUri' = recorder.uri
              /\ isRecording' = FALSE
              /\ currentStep' = "processing"
              /\ trLeg' = [state |-> "pending", text |-> "", reason |-> ""]
              /\ proc' = [proc EXCEPT
                   !.audioUri = recorder.uri,
                   !.pc = IF proc.encl.callerPhraseTime # NullTime
                             /\ proc.encl.recordingStartTime # NullTime
                            THEN "segment" ELSE "lookup"]
              /\ UNCHANGED <<recordingStartTime, callerPhraseTime, countdown,
                             callerName, verificationResult,
                             currentTranscript, timerRef, alert>>
         [] outcome = "nouri" ->
              /\ size = 3 * BYTES_PER_SECOND
              /\ recorder' = [recorder EXCEPT !.recording = FALSE]
              /\ proc' = [proc EXCEPT !.pc = "done"]
              /\ UNCHANGED <<files, fullAudioUri, isRecording, currentStep,
                             trLeg, recordingStartTime, callerPhraseTime,
                             countdown, callerName, verificationResult,
                             currentTranscript, timerRef, alert>>
         [] outcome = "throw" ->
              /\ size = 3 * BYTES_PER_SECOND
              /\ alert' = "Could not stop recording."
              /\ ResetToInitial
              /\ proc' = [proc EXCEPT !.pc = "done"]
              /\ UNCHANGED <<recorder, files, trLeg>>
  /\ UNCHANGED <<comp, screen, nameError, savedCalls, targetUserId,
                 countdownInterval, startPc, autoVars, tempDir, results, now,
                 sessions, runs>>

\* processRecording step 2: audioUtils.segmentAudio(audioUri, offset)
M_segmentAudio ==
  /\ screen = "marker" /\ proc.pc = "segment"
  /\ \E dirOk \in BOOLEAN, copyOk \in BOOLEAN, readOk \in BOOLEAN :
       LET segmentStartTime ==
             proc.encl.callerPhraseTime - proc.encl.recordingStartTime
           r == segmentAudio(proc.audioUri, segmentStartTime, 0, FALSE,
                             dirOk, copyOk, readOk)
       IN /\ tempDir' = r.dir
          /\ proc' = [proc EXCEPT !.segmentedAudio = r.segment,
                                  !.pc = "lookup"]
  /\ UNCHANGED <<comp, screen, shared, store, markerVars, autoVars, stopPc, trLeg,
                 recorder, files, results, now, sessions, runs, alert>>

\* processRecording step 3: findUserByName, and the not-found exit
M_findUser ==
  /\ screen = "marker" /\ proc.pc = "lookup"
  /\ \E queryOk \in BOOLEAN :
       LET targetUser == findUserByName(proc.encl.callerName, queryOk)
       IN IF targetUser = NullUser
            THEN /\ alert' = "Could not find user with that name."
                 /\ ResetToInitial
                 /\ proc' = [proc EXCEPT !.pc = "done"]
            ELSE /\ proc' = [proc EXCEPT
                      !.targetUser = targetUser,
                      !.pc = IF proc.segmentedAudio # NullRec
                               THEN "detect" ELSE "transcript"]
                 /\ UNCHANGED <<isRecording, recordingStartTime,
                                callerPhraseTime, countdown, fullAudioUri,
                                currentStep, callerName, verificationResult,
                                currentTranscript, timerRef, alert>>
  /\ UNCHANGED <<comp, screen, nameError, savedCalls, targetUserId,
                 countdownInterval, startPc, autoVars, stopPc, trLeg,
                 envVars>>

\* processRecording step 4: deepfakeService.detectDeepfake on the segment.
\* authLeg / authValue record what the service itself answered.
M_detectDeepfake ==
  /\ screen = "marker" /\ proc.pc = "detect"
  /\ \E resp \in DetectResponses, mock \in MockResponses :
       proc' = [proc EXCEPT
         !.deepfakeResult = detectDeepfake(resp, mock),
         !.authLeg = IF resp.kind = "ok" THEN "ok" ELSE "failed",
         !.authValue = IF resp.kind = "ok"
                         THEN [prediction |-> resp.prediction,
                               confidence |-> resp.confidence]
                         ELSE NullRec,
         !.pc = "transcript"]
  /\ UNCHANGED <<comp, screen, shared, store, markerVars, autoVars, stopPc, trLeg,
                 envVars, alert>>

\* the tail of processRecording after the persistence step: step 8 (local
\* call history, only for a match) and the choice of step 9
AfterPersist(p) ==
  IF p.segmentedAudio # NullRec THEN "cleanup" ELSE "done"
SaveIfMatch(p, calls) ==
  IF p.outcome.match
    THEN addSavedCall(calls, Call(p.encl.callerName, p.audioUri,
                                  p.fullTranscript, p.outcome.confidence, TRUE))
    ELSE calls

\* processRecording steps 5 and 6: await transcriptPromise, combine, show.
\* A rejected transcription lands in the catch block.
M_awaitTranscript ==
  /\ screen = "marker" /\ proc.pc = "transcript"
  /\ trLeg.state \in {"ok", "failed"}
  /\ IF trLeg.state = "failed"
       THEN /\ alert' = "Failed to process recording. Please try again."
            /\ ResetToInitial
            /\ proc' = [proc EXCEPT !.pc = "done"]
            /\ UNCHANGED savedCalls
       ELSE LET outcome == CombineResults(proc.deepfakeResult, trLeg.text)
                p1 == [proc EXCEPT !.outcome = outcome,
                                   !.fullTranscript = trLeg.text]
            IN /\ verificationResult' = outcome
               /\ currentTranscript' = trLeg.text
               /\ currentStep' = "result"
               /\ IF proc.deepfakeResult # NullRec
                    THEN /\ proc' = [p1 EXCEPT !.pc = "persist"]
                         /\ UNCHANGED savedCalls
                    ELSE /\ proc' = [p1 EXCEPT !.pc = AfterPersist(p1)]
                         /\ savedCalls' = SaveIfMatch(p1, savedCalls)
               /\ UNCHANGED <<isRecording, recordingStartTime,
                              callerPhraseTime, countdown, fullAudioUri,
                              callerName, timerRef, alert>>
  /\ UNCHANGED <<comp, screen, nameError, targetUserId, countdownInterval, startPc,
                 autoVars, stopPc, trLeg, envVars>>

\* processRecording step 7: supabaseService.createResult in its own try,
\* followed by step 8
M_createResult ==
  /\ screen = "marker" /\ proc.pc = "persist"
  /\ \E saved \in BOOLEAN :
       /\ results' = IF saved
            THEN Append(results, [prediction |-> ~proc.deepfakeResult.prediction,
                                  confidence |-> proc.deepfakeResult.confidence,
                                  transcript |-> proc.fullTranscript,
                                  target |-> proc.targetUser])
            ELSE results
       /\ proc' = [proc EXCEPT !.persist = IF saved THEN "ok" ELSE "failed",
                               !.pc = AfterPersist(proc)]
  /\ savedCalls' = SaveIfMatch(proc, savedCalls)
  /\ UNCHANGED <<comp, screen, shared, currentTranscript, targetUserId, markerVars,
                 autoVars, stopPc, trLeg, recorder, files, tempDir, now,
                 sessions, runs, alert>>

\* processRecording step 9: audioUtils.cleanupTempFiles()
M_cleanup ==
  /\ screen = "marker" /\ proc.pc = "cleanup"
  /\ \E ioOk \in BOOLEAN : tempDir' = cleanupTempFiles(tempDir, ioOk)
  /\ proc' = [proc EXCEPT !.pc = "done"]
  /\ UNCHANGED <<comp, screen, shared, store, markerVars, autoVars, stopPc, trLeg,
                 recorder, files, results, now, sessions, runs, alert>>

\* "Verify Another" button of the result card
M_resetToInitial ==
  /\ screen = "marker" /\ currentStep = "result"
  /\ verificationResult # NullRec
  /\ ResetToInitial
  /\ UNCHANGED <<comp, screen, nameError, savedCalls, targetUserId,
                 countdownInterval, startPc, autoVars, flight, envVars, alert>>

\* the transcription request settles (both screens)
TranscriptionSettles ==
  /\ trLeg.state = "pending"
  /\ \E configured \in BOOLEAN, resp \in WhisperResponses :
       /\ (~configured => resp.kind = "timeout")
       /\ trLeg' = transcribeAudio(configured, Exists(proc.audioUri), resp)
  /\ UNCHANGED <<comp, screen, shared, store, markerVars, autoVars, stopPc, proc,
                 envVars, alert>>

\* ======================================================= auto screen
UriExists(uri) == Exists(uri) \/ (tempDir.exists /\ uri \in tempDir.entries)

\* handleLogoPress up to its await of prepareToRecordAsync.  The logo stays
\* on screen for as long as the step is 'initial'; one press is taken to be
\* in flight at a time.
A_handleLogoPress ==
  /\ screen = "auto" /\ currentStep = "initial" /\ startPc = "idle"
  /\ sessions < MaxSessions
  /\ sessions' = sessions + 1
  /\ startPc' = "preparing"
  /\ UNCHANGED <<comp, screen, shared, store, isRecording, recordingStartTime,
                 callerPhraseTime, countdown, fullAudioUri, timerRef,
                 countdownInterval, autoVars, flight, recorder, files,
                 tempDir, results, now, runs, alert>>

\* handleLogoPress after prepareToRecordAsync: record() and the chain of
\* animation timeouts that ends in setIsAnimated(true) and
\* setShowNameInput(true), or the catch branch.  As on the marker screen the
\* device takes the request whether or not it is already recording.
A_logoPrepared ==
  /\ screen = "auto" /\ startPc = "preparing"
  /\ startPc' = "idle"
  /\ \E prepared \in BOOLEAN :
       IF prepared
         THEN /\ recorder' = [recording |-> TRUE,
                              uri |-> RecUri(recorder.made + 1),
                              made |-> recorder.made + 1]
              /\ logoTimeout' = TRUE
              /\ UNCHANGED alert
         ELSE /\ alert' = "Could not start recording."
              /\ UNCHANGED <<recorder, logoTimeout>>
  /\ UNCHANGED <<comp, screen, shared, store, isRecording, recordingStartTime,
                 callerPhraseTime, countdown, fullAudioUri, timerRef,
                 countdownInterval, isAnimated, showNameInput,
                 nameSubmitted, recordingTimeLeft, showRecordingText,
                 recordingTimerRef, currentTargetUserIdRef, intervals,
                 nextTimer, startTimeouts, resetTimeout, submit, flight, files,
                 tempDir, results, now, sessions, runs>>

\* the last timeout of handleLogoPress
A_logoTimeout ==
  /\ screen = "auto" /\ logoTimeout
  /\ logoTimeout' = FALSE
  /\ isAnimated' = TRUE
  /\ showNameInput' = TRUE
  /\ UNCHANGED <<comp, screen, shared, store, markerVars, nameSubmitted,
                 recordingTimeLeft, showRecordingText, recordingTimerRef,
                 currentTargetUserIdRef, intervals, nextTimer, startTimeouts,
                 resetTimeout, submit, flight, envVars, alert>>

\* the name field under the logo (editable until the name is submitted)
A_setCallerName(n) ==
  /\ screen = "auto" /\ showNameInput /\ ~nameSubmitted
  /\ callerName' = n
  /\ UNCHANGED <<comp, screen, currentStep, nameError, verificationResult, store,
                 markerVars, autoVars, flight, envVars, alert>>

\* handleNameSubmit up to its await of findUserByName.  One lookup is taken
\* to be in flight at a time.
A_handleNameSubmit ==
  /\ screen = "auto" /\ showNameInput /\ ~nameSubmitted
  /\ submit.pc = "idle"
  /\ IF callerName = <<>>
       THEN /\ nameError' = "Please enter the caller's name"
            /\ UNCHANGED submit
       ELSE /\ nextTimer + Len(startTimeouts) <= MaxTimers
            /\ nameError' = ""
            /\ submit' = [pc |-> "lookup", name |-> callerName]
  /\ UNCHANGED <<comp, screen, currentStep, callerName, verificationResult, store,
                 markerVars, isAnimated, showNameInput, nameSubmitted,
                 recordingTimeLeft, showRecordingText, recordingTimerRef,
                 currentTargetUserIdRef, intervals, nextTimer, startTimeouts,
                 logoTimeout, resetTimeout, flight, envVars, alert>>

\* handleNameSubmit after findUserByName: the target id goes to the store and
\* to the ref, and a 400 ms timeout is set that will start the interval
A_nameLookup ==
  /\ screen = "auto" /\ submit.pc = "lookup"
  /\ submit' = [pc |-> "idle", name |-> <<>>]
  /\ \E queryOk \in BOOLEAN :
       LET foundUser == findUserByName(submit.name, queryOk)
       IN IF foundUser = NullUser
            THEN /\ nameError' = "No user found with that name"
                 /\ UNCHANGED <<targetUserId, currentTargetUserIdRef,
                                startTimeouts, nameSubmitted>>
            ELSE /\ targetUserId' = foundUser
                 /\ currentTargetUserIdRef' = foundUser
                 /\ startTimeouts' = Append(startTimeouts, submit.name)
                 /\ nameSubmitted' = TRUE
                 /\ UNCHANGED nameError
  /\ UNCHANGED <<comp, screen, currentStep, callerName, verificationResult,
                 currentTranscript, savedCalls, markerVars, isAnimated,
                 showNameInput, recordingTimeLeft, showRecordingText,
                 recordingTimerRef, intervals, nextTimer, logoTimeout,
                 resetTimeout, flight, envVars, alert>>

\* the 400 ms timeout of handleNameSubmit: setRecordingTimeLeft(5) and
\* recordingTimerRef.current = setInterval(...).  The interval callback
\* closes over the callerName of the render in which the name was submitted,
\* which startTimeouts carries.
A_startTimeout ==
  /\ screen = "auto" /\ startTimeouts # <<>>
  /\ startTimeouts' = Tail(startTimeouts)
  /\ recordingTimeLeft' = RECORDING_TIME
  /\ recordingTimerRef' = nextTimer
  /\ intervals' = intervals \cup {[id |-> nextTimer,
                                 callerName |-> Head(startTimeouts)]}
  /\ nextTimer' = nextTimer + 1
  /\ UNCHANGED <<comp, screen, shared, store, markerVars, isAnimated, showNameInput,
                 nameSubmitted, showRecordingText, currentTargetUserIdRef,
                 logoTimeout, resetTimeout, submit, flight, envVars, alert>>

\* one firing of an interval: the setRecordingTimeLeft updater.  At expiry
\* handleStopRecording() runs up to its await: it clears the interval that
\* recordingTimerRef names and hides the recording text.
A_intervalTick(i) ==
  /\ screen = "auto" /\ i \in intervals
  /\ IF recordingTimeLeft <= 1
       THEN /\ stopPc = "idle" /\ proc.pc \in {"idle", "done"}
            /\ runs < MaxRuns
            /\ runs' = runs + 1
            /\ intervals' = {j \in intervals : j.id # recordingTimerRef}
            /\ recordingTimerRef' = 0
            /\ showRecordingText' = FALSE
            /\ stopPc' = "stopping"
            /\ proc' = [IdleProc EXCEPT !.encl.callerName = i.callerName]
            /\ trLeg' = IdleLeg
            /\ recordingTimeLeft' = 0
       ELSE /\ recordingTimeLeft' = recordingTimeLeft - 1
            /\ showRecordingText' =
                 IF recordingTimeLeft = SHOW_TEXT_AT THEN TRUE
                                                     ELSE showRecordingText
            /\ UNCHANGED <<intervals, recordingTimerRef, stopPc, proc, trLeg,
                           runs>>
  /\ UNCHANGED <<comp, screen, shared, store, markerVars, isAnimated, showNameInput,
                 nameSubmitted, currentTargetUserIdRef, nextTimer,
                 startTimeouts, logoTimeout, resetTimeout, submit, recorder,
                 files, tempDir, results, now, sessions, alert>>

\* handleStopRecording after audioRecorder.stop(), and with a URI the part of
\* handleRecordingComplete before its await: step 'result', the ref check,
\* and the two concurrent requests of the Promise.all
A_handleStopRecording ==
  /\ screen = "auto" /\ stopPc = "stopping"
  /\ stopPc' = "idle"
  /\ \E outcome \in {"uri", "nouri", "throw"}, size \in Sizes :
       CASE outcome = "uri" ->
              /\ recorder.uri # NullUri
              /\ recorder' = [recorder EXCEPT !.recording = FALSE]
              /\ files' = {f \in files : f.uri # recorder.uri}
                            \cup {[uri |-> recorder.uri, size |-> size]}
              /\ IF currentTargetUserIdRef = NullUser
                   THEN /\ alert' = "No target user found. Please try again."
                        /\ currentStep' = "ready"
                        /\ proc' = [proc EXCEPT !.pc = "done"]
                        /\ UNCHANGED trLeg
                   ELSE /\ currentStep' = "result"
                        /\ proc' = [proc EXCEPT
                             !.audioUri = recorder.uri,
                             !.targetUser = currentTargetUserIdRef,
                             !.segLeg = "pending",
                             !.pc = "fanout"]
                        /\ trLeg' = [state |-> "pending", text |-> "",
                                     reason |-> ""]
                        /\ UNCHANGED alert
         [] outcome \in {"nouri", "throw"} ->
              /\ size = 3 * BYTES_PER_SECOND
              /\ alert' = "Failed to complete recording. Please try again."
              /\ recorder' = [recorder EXCEPT
                   !.recording = IF outcome = "throw" THEN @ ELSE FALSE]
              /\ proc' = [proc EXCEPT !.pc = "done"]
              /\ UNCHANGED <<files, currentStep, trLeg>>
  /\ UNCHANGED <<comp, screen, callerName, nameError, verificationResult, store,
                 markerVars, autoVars, tempDir, results, now, sessions, runs>>

\* first request of the Promise.all: audioUtils.extractLast5Seconds
A_extractLast5Seconds ==
  /\ screen = "auto" /\ proc.pc = "fanout" /\ proc.segLeg = "pending"
  /\ \E dirOk \in BOOLEAN, copyOk \in BOOLEAN, readOk \in BOOLEAN,
        readAgainOk \in BOOLEAN :
       LET r == extractLast5Seconds(proc.audioUri, dirOk, copyOk, readOk,
                                    readAgainOk)
       IN /\ tempDir' = r.dir
          /\ proc' = [proc EXCEPT !.segmentedAudio = r.segment,
                                  !.segLeg = "done"]
  /\ UNCHANGED <<comp, screen, shared, store, markerVars, autoVars, stopPc, trLeg,
                 recorder, files, results, now, sessions, runs, alert>>

\* the .catch on the transcription request of the Promise.all
CaughtTranscript(leg) ==
  IF leg.state = "ok" THEN leg.text ELSE "Transcription failed"

\* the upload issued whatever the extraction returned
A_promiseAllUnchecked ==
  /\ screen = "auto" /\ proc.pc = "fanout" /\ proc.segLeg = "done"
  /\ trLeg.state \in {"ok", "failed"}
  /\ proc' = [proc EXCEPT !.pc = "verify",
                          !.fullTranscript = CaughtTranscript(trLeg)]
  /\ UNCHANGED <<alert, currentStep>>
  /\ UNCHANGED <<comp, screen, callerName, nameError, verificationResult, store,
                 markerVars, autoVars, stopPc, trLeg, envVars>>

\* the Promise.all has both values: a null segment throws into the catch
\* block (alert, step 'ready', cleanup), otherwise the upload is issued
A_promiseAll ==
  /\ screen = "auto" /\ proc.pc = "fanout" /\ proc.segLeg = "done"
  /\ trLeg.state \in {"ok", "failed"}
  /\ IF proc.segmentedAudio = NullRec
       THEN /\ alert' = "Failed to verify voice. Please try again."
            /\ currentStep' = "ready"
            /\ proc' = [proc EXCEPT !.pc = "cleanupErr",
                                    !.fullTranscript = CaughtTranscript(trLeg)]
       ELSE /\ proc' = [proc EXCEPT !.pc = "verify",
                                    !.fullTranscript = CaughtTranscript(trLeg)]
            /\ UNCHANGED <<alert, currentStep>>
  /\ UNCHANGED <<comp, screen, callerName, nameError, verificationResult, store,
                 markerVars, autoVars, stopPc, trLeg, envVars>>

\* herokuService.uploadWavFile(segment, '/verify') returned or threw;
\* on a value: setCurrentTranscript, finalResult, setVerificationResult.
\* authLeg / authValue record what the service itself answered.
A_uploadWavFile ==
  /\ screen = "auto" /\ proc.pc = "verify"
  /\ \E resp \in VerifyResponses :
       LET r == uploadWavFile(UriExists(proc.segmentedAudio.uri), resp)
           finalResult == FinalResult(r.value, proc.fullTranscript)
       IN IF r.threw
            THEN /\ alert' = "Failed to verify voice. Please try again."
                 /\ currentStep' = "ready"
                 /\ proc' = [proc EXCEPT !.pc = "cleanupErr",
                                         !.authLeg = "failed"]
                 /\ UNCHANGED <<currentTranscript, verificationResult>>
            ELSE /\ currentTranscript' = finalResult.transcript
                 /\ verificationResult' = finalResult
                 /\ proc' = [proc EXCEPT
                      !.pc = "persist",
                      !.outcome = finalResult,
                      !.authLeg = IF resp.hasPrediction /\ resp.hasConfidence
                                    THEN "ok" ELSE "failed",
                      !.authValue = IF resp.hasPrediction /\ resp.hasConfidence
                                      THEN [prediction |-> resp.prediction,
                                            confidence |-> resp.confidence]
                                      ELSE NullRec]
                 /\ UNCHANGED <<alert, currentStep>>
  /\ UNCHANGED <<comp, screen, callerName, nameError, savedCalls, targetUserId,
                 markerVars, autoVars, stopPc, trLeg, envVars>>

\* the save rethrown to the outer catch of handleRecordingComplete instead of
\* being caught at the call
A_createResultRethrown ==
  /\ screen = "auto" /\ proc.pc = "persist"
  /\ \E saved \in BOOLEAN :
       IF saved
         THEN /\ results' = Append(results,
                     [prediction |-> proc.outcome.match,
                      confidence |-> proc.outcome.confidence,
                      transcript |-> proc.outcome.transcript,
                      target |-> proc.targetUser])
              /\ proc' = [proc EXCEPT !.persist = "ok", !.pc = "cleanup"]
              /\ savedCalls' = addSavedCall(savedCalls,
                    Call(proc.encl.callerName, proc.audioUri,
                         proc.outcome.transcript, proc.outcome.confidence,
                         proc.outcome.match))
              /\ currentStep' = "result"
              /\ UNCHANGED alert
         ELSE /\ proc' = [proc EXCEPT !.persist = "failed",
                                      !.pc = "cleanupErr"]
              /\ alert' = "Failed to verify voice. Please try again."
              /\ currentStep' = "ready"
              /\ UNCHANGED <<results, savedCalls>>
  /\ UNCHANGED <<comp, screen, callerName, nameError, verificationResult,
                 currentTranscript, targetUserId, markerVars, autoVars, stopPc,
                 trLeg, recorder, files, tempDir, now, sessions, runs>>

\* supabaseService.createResult in its own try, then addSavedCall and
\* setCurrentStep('result')
A_createResult ==
  /\ screen = "auto" /\ proc.pc = "persist"
  /\ \E saved \in BOOLEAN :
       /\ results' = IF saved
            THEN Append(results, [prediction |-> proc.outcome.match,
                                  confidence |-> proc.outcome.confidence,
                                  transcript |-> proc.outcome.transcript,
                                  target |-> proc.targetUser])
            ELSE results
       /\ proc' = [proc EXCEPT !.persist = IF saved THEN "ok" ELSE "failed",
                               !.pc = "cleanup"]
  /\ savedCalls' = addSavedCall(savedCalls,
        Call(proc.encl.callerName, proc.audioUri, proc.outcome.transcript,
             proc.outcome.confidence, proc.outcome.match))
  /\ currentStep' = "result"
  /\ UNCHANGED <<comp, screen, callerName, nameError, verificationResult,
                 currentTranscript, targetUserId, markerVars, autoVars, stopPc,
                 trLeg, recorder, files, tempDir, now, sessions, runs, alert>>

\* audioUtils.cleanupTempFiles() at the end of the try block and of the catch
A_cleanup ==
  /\ screen = "auto" /\ proc.pc \in {"cleanup", "cleanupErr"}
  /\ \E ioOk \in BOOLEAN : tempDir' = cleanupTempFiles(tempDir, ioOk)
  /\ proc' = [proc EXCEPT !.pc = "done"]
  /\ UNCHANGED <<comp, screen, shared, store, markerVars, autoVars, stopPc, trLeg,
                 recorder, files, results, now, sessions, runs, alert>>

\* handleResetAnimation (the X button): the state is reset by a 300 ms timeout
A_handleResetAnimation ==
  /\ screen = "auto" /\ isAnimated
  /\ resetTimeout' = TRUE
  /\ UNCHANGED <<comp, screen, shared, store, markerVars, isAnimated, showNameInput,
                 nameSubmitted, recordingTimeLeft, showRecordingText,
                 recordingTimerRef, currentTargetUserIdRef, intervals,
                 nextTimer, startTimeouts, logoTimeout, submit, flight,
                 envVars, alert>>

\* the 300 ms timeout of handleResetAnimation.  audioRecorder.stop() and
\* cleanupTempFiles() are started and not awaited; their rejections are
\* only logged.  A stop that succeeds on a running capture leaves the
\* recording file behind.
A_resetTimeout ==
  /\ screen = "auto" /\ resetTimeout
  /\ resetTimeout' = FALSE
  /\ isAnimated' = FALSE
  /\ showNameInput' = FALSE
  /\ callerName' = <<>>
  /\ nameError' = ""
  /\ currentTranscript' = ""
  /\ nameSubmitted' = FALSE
  /\ targetUserId' = NullUser
  /\ currentTargetUserIdRef' = NullUser
  /\ showRecordingText' = FALSE
  /\ recordingTimeLeft' = RECORDING_TIME
  /\ currentStep' = "initial"
  /\ intervals' = {j \in intervals : j.id # recordingTimerRef}
  /\ recordingTimerRef' = 0
  /\ \E stopOk \in BOOLEAN, size \in Sizes, ioOk \in BOOLEAN :
       /\ IF stopOk /\ recorder.recording
            THEN /\ recorder' = [recorder EXCEPT !.recording = FALSE]
                 /\ files' = {f \in files : f.uri # recorder.uri}
                               \cup {[uri |-> recorder.uri, size |-> size]}
            ELSE /\ size = 3 * BYTES_PER_SECOND
                 /\ UNCHANGED <<recorder, files>>
       /\ tempDir' = cleanupTempFiles(tempDir, ioOk)
  /\ UNCHANGED <<comp, screen, verificationResult, savedCalls, markerVars,
                 nextTimer, startTimeouts, logoTimeout, submit, flight,
                 results, now, sessions, runs, alert>>

\* ============================================================ behaviours
AutoNext ==
  \/ A_handleLogoPress
  \/ A_logoPrepared
  \/ A_logoTimeout
  \/ \E n \in Names : A_setCallerName(n)
  \/ A_handleNameSubmit
  \/ A_nameLookup
  \/ A_startTimeout
  \/ \E i \in intervals : A_intervalTick(i)
  \/ A_handleStopRecording
  \/ A_extractLast5Seconds
  \/ A_promiseAll
  \/ A_uploadWavFile
  \/ A_createResult
  \/ A_cleanup
  \/ A_handleResetAnimation
  \/ A_resetTimeout

\* The marker screen as the user can drive it.  ENTER is only offered in a
\* render whose callerPhraseTime is still null, so the interval it starts
\* never takes processRecording into steps 2, 4, 7 and 9.
MarkerNext ==
  \/ M_handleStartVerification
  \/ \E n \in Names : M_setCallerName(n)
  \/ M_Back
  \/ M_StartRecordingPress
  \/ M_startRecordingFlow
  \/ M_ChangeName
  \/ M_handleEnterPressed
  \/ M_countdownTick
  \/ M_handleStopRecording
  \/ M_findUser
  \/ M_awaitTranscript
  \/ M_resetToInitial

Next == MarkerNext \/ AutoNext \/ TranscriptionSettles
Spec == Init /\ [][Next]_vars

\* The continuations of processRecording and handleRecordingComplete after
\* an await other than the transcription request.  The steps of one handler
\* run in sequence, so at most one of them is enabled at a time.
HandlerStep ==
  \/ M_findUser
  \/ M_awaitTranscript
  \/ A_extractLast5Seconds
  \/ A_promiseAll
  \/ A_uploadWavFile
  \/ A_createResult
  \/ A_cleanup

\* Every await of a handler whose promise has settled is resumed by the event
\* loop.  Nothing makes the transcription request itself settle:
\* transcribeAudio passes no timeout to FileSystem.uploadAsync.
SpecLive == Spec /\ WF_vars(HandlerStep)

\* processRecording entered from a render in which callerPhraseTime is set,
\* the case its steps 2, 4, 7 and 9 are written for: the recording has been
\* stopped and stored, the transcription request has just been issued.
InitProc ==
  \E size \in Sizes, t \in 1..MaxNow, name \in Names \ {<<>>} :
    /\ screen = "marker"
    /\ currentStep = "processing" /\ callerName = name /\ nameError = ""
    /\ verificationResult = NullRec
    /\ currentTranscript = "" /\ savedCalls = <<>> /\ targetUserId = NullUser
    /\ isRecording = FALSE /\ recordingStartTime = 1
    /\ callerPhraseTime = t /\ countdown = 0 /\ fullAudioUri = RecUri(1)
    /\ timerRef = 0 /\ countdownInterval = NullRec /\ startPc = "idle"
    /\ isAnimated = FALSE /\ showNameInput = FALSE /\ nameSubmitted = FALSE
    /\ recordingTimeLeft = RECORDING_TIME /\ showRecordingText = FALSE
    /\ recordingTimerRef = 0 /\ currentTargetUserIdRef = NullUser
    /\ intervals = {} /\ nextTimer = 1 /\ startTimeouts = <<>>
    /\ logoTimeout = FALSE /\ resetTimeout = FALSE
    /\ submit = [pc |-> "idle", name |-> <<>>]
    /\ stopPc = "idle"
    /\ proc = [IdleProc EXCEPT
         !.encl = [callerPhraseTime |-> t, recordingStartTime |-> 1,
                   callerName |-> name],
         !.audioUri = RecUri(1),
         !.pc = "segment"]
    /\ trLeg = [state |-> "pending", text |-> "", reason |-> ""]
    /\ recorder = [recording |-> FALSE, uri |-> RecUri(1), made |-> 1]
    /\ files = {[uri |-> RecUri(1), size |-> size]}
    /\ tempDir = [exists |-> FALSE, entries |-> {}]
    /\ results = <<>> /\ alert = "" /\ now = t
    /\ sessions = MaxSessions /\ runs = MaxRuns
    /\ IdleComp

\* the steps of processRecording that need the segment
ProcNext ==
  \/ M_segmentAudio
  \/ M_detectDeepfake
  \/ M_createResult
  \/ M_cleanup

NextProc == Next \/ ProcNext
SpecProc == (Init \/ InitProc) /\ [][NextProc]_vars

\* ================================================ Recorder component
\* everything the two home screens own
base == <<screen, shared, store, markerVars, autoVars, flight, envVars, alert>>

RemoveAt(s, i) == SubSeq(s, 1, i - 1) \o SubSeq(s, i + 1, Len(s))

\* Durations and progress are counted in timer ticks of 100 ms.
\* Math.min(progress, 100) with progress += 0.1 per tick
PROGRESS_CAP == 1000
\* the maxDuration prop of the component, in ticks
maxDuration == 2
\* explored ticks of the progress interval, handleStopRecording calls per
\* recording, recordings per mount
MaxProgress == 2
MaxStops == 2
MaxRecordings == 2

\* audioRecorder.isRecording as a caller reads it.  While a stop() call has
\* been issued and has not settled the native flag may already be down.
DeviceReads(r) ==
  CASE r.device = "recording" -> {TRUE}
    [] r.device = "idle" -> {FALSE}
    [] OTHER -> BOOLEAN

\* the catch block of stopRecording followed by the else branch of
\* handleStopRecording: the store is reset, the hook's own state and the
\* progress interval are not touched, the error alert is shown
StopCaught(r) ==
  [r EXCEPT !.isRecording = FALSE, !.recordingProgress = 0,
            !.alerts = @ + 1, !.lastReturn = "stop-null"]

\* the clean-up of stopRecording after getInfoAsync, onRecordingComplete in
\* the parent, and the effect that resets the duration once `recording` is
\* false
StopCompleted(r) ==
  [r EXCEPT !.isRecordingState = FALSE, !.isRecording = FALSE,
            !.recordingProgress = 0, !.intervalRef = FALSE,
            !.recordingDuration = 0,
            !.completes = @ + 1, !.lastReturn = "stop-ok"]

\* the finally block of cancelRecording, onRecordingCancel, the duration
\* effect
CancelFinally(r) ==
  [r EXCEPT !.isRecordingState = FALSE, !.isRecording = FALSE,
            !.recordingProgress = 0, !.intervalRef = FALSE,
            !.recordingDuration = 0, !.lastReturn = "cancel"]

\* handleStopRecording up to the first await of stopRecording.  The caller
\* (the button of the recording render, or the interval of the effect that
\* ran when `recording` became true) holds a stopRecording whose isRecording
\* is true, so the guard of stopRecording depends on the native flag alone.
handleStopRecording(r, auto, deviceIsRecording) ==
  LET called == [r EXCEPT !.stopCalls = @ + 1,
                          !.autoStops = IF auto THEN @ + 1 ELSE @]
  IN IF ~deviceIsRecording
       THEN StopCaught(called)
       ELSE [called EXCEPT !.stops = Append(@, [pc |-> "stop"]),
                           !.device = "stopping"]

\* the Settings button of the permission alert: requestPermission
R_requestPermission ==
  /\ screen = "recorder" /\ ~rec.permissionGranted
  /\ \E granted \in BOOLEAN :
       rec' = [rec EXCEPT !.permissionGranted = granted]
  /\ UNCHANGED <<base, enroll, wizard, api, hist>>

\* handleStartRecording from the "Tap to Record" button, which is rendered
\* while `recording` is false.  Without the permission only the alert is
\* shown.
R_handleStartRecording ==
  /\ screen = "recorder" /\ ~rec.isRecordingState /\ rec.startPc = "idle"
  /\ rec.permissionGranted
  /\ rec.recordings < MaxRecordings
  /\ rec' = [rec EXCEPT !.startPc = "starting"]
  /\ UNCHANGED <<base, enroll, wizard, api, hist>>

\* startRecording after ensurePermissions and prepareToRecordAsync: record(),
\* the two flags, the progress interval with its local progress = 0; or the
\* catch block
R_startRecording ==
  /\ screen = "recorder" /\ rec.startPc = "starting"
  /\ \E ok \in BOOLEAN :
       rec' = IF ok
                THEN [rec EXCEPT !.startPc = "idle", !.device = "recording",
                                 !.isRecordingState = TRUE,
                                 !.isRecording = TRUE,
                                 !.progress = 0, !.intervalRef = TRUE,
                                 !.recordings = @ + 1,
                                 !.stopCalls = 0, !.autoStops = 0,
                                 !.completes = 0, !.alerts = 0,
                                 !.lastReturn = "none"]
                ELSE [rec EXCEPT !.startPc = "idle", !.isRecording = FALSE]
  /\ UNCHANGED <<base, enroll, wizard, api, hist>>

\* the progress interval of the hook
R_progressTick ==
  /\ screen = "recorder" /\ rec.intervalRef /\ rec.progress < MaxProgress
  /\ rec' = [rec EXCEPT !.progress = @ + 1,
                        !.recordingProgress = Min(rec.progress + 1,
                                                  PROGRESS_CAP)]
  /\ UNCHANGED <<base, enroll, wizard, api, hist>>

\* the duration interval of the component: it lives while `recording` is
\* true and calls handleStopRecording on every tick from maxDuration on
R_durationTick ==
  /\ screen = "recorder" /\ rec.isRecordingState
  /\ LET newDuration == rec.recordingDuration + 1
     IN IF newDuration >= maxDuration
          THEN /\ rec.stopCalls < MaxStops
               /\ \E d \in DeviceReads(rec) :
                    rec' = [handleStopRecording(rec, TRUE, d)
                              EXCEPT !.recordingDuration = maxDuration]
          ELSE rec' = [rec EXCEPT !.recordingDuration = newDuration]
  /\ UNCHANGED <<base, enroll, wizard, api, hist>>

\* the "Recording..." button
R_stopPress ==
  /\ screen = "recorder" /\ rec.isRecordingState
  /\ rec.stopCalls < MaxStops
  /\ \E d \in DeviceReads(rec) : rec' = handleStopRecording(rec, FALSE, d)
  /\ UNCHANGED <<base, enroll, wizard, api, hist>>

\* await audioRecorder.stop() of stopRecording settles: a rejection or a
\* missing uri goes to the catch block
R_stopSettles(i) ==
  /\ screen = "recorder" /\ i \in DOMAIN rec.stops /\ rec.stops[i].pc = "stop"
  /\ \E ok \in BOOLEAN, hasUri \in BOOLEAN, dev \in {"idle", "recording"} :
       /\ ok => dev = "idle"
       /\ rec' = IF ok /\ hasUri
                   THEN [rec EXCEPT !.device = dev, !.stops[i].pc = "info"]
                   ELSE StopCaught([rec EXCEPT !.device = dev,
                                       !.stops = RemoveAt(@, i)])
  /\ UNCHANGED <<base, enroll, wizard, api, hist>>

\* await FileSystem.getInfoAsync(uri) settles
R_getInfoSettles(i) ==
  /\ screen = "recorder" /\ i \in DOMAIN rec.stops /\ rec.stops[i].pc = "info"
  /\ \E ok \in BOOLEAN :
       LET left == [rec EXCEPT !.stops = RemoveAt(@, i)]
       IN rec' = IF ok THEN StopCompleted(left) ELSE StopCaught(left)
  /\ UNCHANGED <<base, enroll, wizard, api, hist>>

\* handleCancelRecording from the Cancel button: cancelRecording awaits
\* stop() only when the native flag is up
R_handleCancelRecording ==
  /\ screen = "recorder" /\ rec.isRecordingState
  /\ Len(rec.stops) < MaxStops
  /\ \E d \in DeviceReads(rec) :
       rec' = IF d
                THEN [rec EXCEPT !.stops = Append(@, [pc |-> "cancelStop"]),
                                 !.device = "stopping"]
                ELSE CancelFinally(rec)
  /\ UNCHANGED <<base, enroll, wizard, api, hist>>

\* stop() and deleteAsync of cancelRecording settle; whatever they do the
\* finally block runs
R_cancelSettles(i) ==
  /\ screen = "recorder" /\ i \in DOMAIN rec.stops
  /\ rec.stops[i].pc = "cancelStop"
  /\ \E dev \in {"idle", "recording"} :
       rec' = CancelFinally([rec EXCEPT !.device = dev,
                                        !.stops = RemoveAt(@, i)])
  /\ UNCHANGED <<base, enroll, wizard, api, hist>>

RecorderNext ==
  \/ R_requestPermission
  \/ R_handleStartRecording
  \/ R_startRecording
  \/ R_progressTick
  \/ R_durationTick
  \/ R_stopPress
  \/ \E i \in 1..MaxStops : R_stopSettles(i)
  \/ \E i \in 1..MaxStops : R_getInfoSettles(i)
  \/ R_handleCancelRecording
  \/ \E i \in 1..MaxStops : R_cancelSettles(i)

InitRecorder == Mounted("recorder")
SpecRecorder == InitRecorder /\ [][RecorderNext]_vars

\* ======================================================= record tab
totalClips == 10
\* useState(5) and setTimeLeft(5): seconds per clip
CLIP_SECONDS == 5
\* handleStopRecording invocations that can be suspended at the same time
MaxEnrollStops == 2

\* the disabled prop of the Pressable (the phrase has been loaded)
PressableDisabled(e) ==
  e.isRecording \/ e.isUploading \/ e.currentClipIndex >= totalClips

\* handleStopRecording up to await audioRecorder.stop(): the invocation
\* keeps the recordedClips of the render it was created in
InvokeStop(e) ==
  [e EXCEPT !.stops = Append(@, [pc |-> "stop", clips |-> e.recordedClips,
                                 created |-> FALSE, uploaded |-> 0,
                                 calibrated |-> FALSE])]

\* the last two statements of the try block of handleStopRecording
StopEpilogue(e) == [e EXCEPT !.isRecording = FALSE, !.timeLeft = CLIP_SECONDS]

\* sendClipsToBackend has returned to handleStopRecording: the finally block
\* (with a user), then the rest of handleStopRecording
UploadReturns(e, i, outcome) ==
  StopEpilogue([e EXCEPT !.stops = RemoveAt(@, i),
                         !.isUploading = IF outcome = "nouser" THEN @
                                                               ELSE FALSE,
                         !.lastUpload = outcome,
                         !.returned = ~@])

\* the catch block of sendClipsToBackend with the state before it left alone
\* except by the finally block
UploadCaughtKeepsBusy(e, i) ==
  [UploadReturns(e, i, "failed") EXCEPT !.isUploading = TRUE]

\* the catch block of sendClipsToBackend: an alert, then the finally block
UploadCaught(e, i) == UploadReturns(e, i, "failed")

\* the user has signed in on the auth screen: setUser of the store
E_signIn ==
  /\ screen = "record" /\ ~enroll.user
  /\ enroll.stops = <<>> /\ enroll.startPc = "idle" /\ ~enroll.pressed
  /\ enroll' = [enroll EXCEPT !.user = TRUE]
  /\ UNCHANGED <<base, rec, wizard, api, hist>>

\* onPressIn: handleStartRecording up to await prepareToRecordAsync
E_pressIn ==
  /\ screen = "record" /\ ~enroll.pressed /\ ~PressableDisabled(enroll)
  /\ enroll.startPc = "idle"
  /\ enroll' = [enroll EXCEPT !.pressed = TRUE, !.startPc = "preparing"]
  /\ UNCHANGED <<base, rec, wizard, api, hist>>

\* prepareToRecordAsync settles: record(), setIsRecording(true),
\* setTimeLeft(5); or the catch block with its alert
E_prepared ==
  /\ screen = "record" /\ enroll.startPc = "preparing"
  /\ \E ok \in BOOLEAN :
       enroll' = IF ok
                   THEN [enroll EXCEPT !.startPc = "idle", !.device = TRUE,
                                       !.uriSet = TRUE, !.isRecording = TRUE,
                                       !.timeLeft = CLIP_SECONDS,
                                       !.clipsThisRecording = 0]
                   ELSE [enroll EXCEPT !.startPc = "idle"]
  /\ UNCHANGED <<base, rec, wizard, api, hist>>

\* the one second interval of the timer effect; the effect of the render
\* with timeLeft = 0 calls handleStopRecording
E_timerTick ==
  /\ screen = "record" /\ enroll.isRecording /\ enroll.timeLeft > 0
  /\ LET ticked == [enroll EXCEPT !.timeLeft = @ - 1]
     IN IF ticked.timeLeft = 0
          THEN /\ Len(enroll.stops) < MaxEnrollStops
               /\ enroll' = InvokeStop(ticked)
          ELSE enroll' = ticked
  /\ UNCHANGED <<base, rec, wizard, api, hist>>

\* the finger leaves the button: onPressOut = handleStopRecording, when the
\* Pressable delivers it
E_pressOut ==
  /\ screen = "record" /\ enroll.pressed
  /\ \E delivered \in BOOLEAN :
       LET up == [enroll EXCEPT !.pressed = FALSE]
       IN IF delivered
            THEN /\ Len(enroll.stops) < MaxEnrollStops
                 /\ enroll' = InvokeStop(up)
            ELSE enroll' = up
  /\ UNCHANGED <<base, rec, wizard, api, hist>>

\* await audioRecorder.stop() of handleStopRecording settles
E_stopSettles(i) ==
  /\ screen = "record" /\ i \in DOMAIN enroll.stops
  /\ enroll.stops[i].pc = "stop"
  /\ \E ok \in BOOLEAN :
       LET it == enroll.stops[i]
           stopped == [enroll EXCEPT !.device = FALSE]
           left == [stopped EXCEPT !.stops = RemoveAt(@, i)]
           newClips == it.clips + 1
           added == [stopped EXCEPT
                       !.recordedClips = newClips,
                       !.currentClipIndex = Min(@ + 1, totalClips),
                       !.clipsThisRecording = Min(@ + 1, 2)]
       IN enroll' =
            IF ~ok THEN [enroll EXCEPT !.stops = RemoveAt(@, i)]
            ELSE IF ~enroll.uriSet THEN StopEpilogue(left)
            ELSE IF it.clips >= totalClips THEN left
            ELSE IF newClips < totalClips
              THEN StopEpilogue([added EXCEPT !.stops = RemoveAt(@, i)])
            ELSE IF ~enroll.user
              THEN UploadReturns([added EXCEPT !.sends = Min(@ + 1, 2)],
                                 i, "nouser")
            ELSE [added EXCEPT !.sends = Min(@ + 1, 2),
                               !.isUploading = TRUE,
                               !.stops[i].pc = "createVoxKey"]
  /\ UNCHANGED <<base, rec, wizard, api, hist>>

\* await supabaseService.createVoxKey settles
E_createVoxKey(i) ==
  /\ screen = "record" /\ i \in DOMAIN enroll.stops
  /\ enroll.stops[i].pc = "createVoxKey"
  /\ \E ok \in BOOLEAN :
       enroll' = IF ok
                   THEN [enroll EXCEPT !.stops[i].pc = "upload",
                                       !.stops[i].created = TRUE]
                   ELSE UploadCaught(enroll, i)
  /\ UNCHANGED <<base, rec, wizard, api, hist>>

\* the upload loop over the clips of the invocation: getInfoAsync,
\* readAsStringAsync and uploadAudioFile per clip; the first failure throws
\* out of the loop with the clips before it uploaded
E_uploadFiles(i) ==
  /\ screen = "record" /\ i \in DOMAIN enroll.stops
  /\ enroll.stops[i].pc = "upload"
  /\ \E done \in 0..(enroll.stops[i].clips + 1) :
       enroll' =
         IF done < enroll.stops[i].clips + 1
           THEN UploadCaught([enroll EXCEPT !.stops[i].uploaded = done], i)
           ELSE [enroll EXCEPT !.stops[i].uploaded = done,
                               !.stops[i].pc = "calibrate"]
  /\ UNCHANGED <<base, rec, wizard, api, hist>>

\* await fetch('/calibrate') settles: a rejection or !apiResponse.ok throws
E_calibrate(i) ==
  /\ screen = "record" /\ i \in DOMAIN enroll.stops
  /\ enroll.stops[i].pc = "calibrate"
  /\ \E ok \in BOOLEAN :
       enroll' = IF ok
                   THEN [enroll EXCEPT !.stops[i].pc = "json",
                                       !.stops[i].calibrated = TRUE]
                   ELSE UploadCaught(enroll, i)
  /\ UNCHANGED <<base, rec, wizard, api, hist>>

\* await apiResponse.json() settles: setUser({...user, hasVoxKey: true}),
\* the success alert, the clips are reset
E_json(i) ==
  /\ screen = "record" /\ i \in DOMAIN enroll.stops
  /\ enroll.stops[i].pc = "json"
  /\ \E ok \in BOOLEAN :
       enroll' = IF ok
                   THEN UploadReturns([enroll EXCEPT !.hasVoxKey = TRUE,
                                                     !.recordedClips = 0,
                                                     !.currentClipIndex = 0,
                                                     !.sends = 0],
                                      i, "ok")
                   ELSE UploadCaught(enroll, i)
  /\ UNCHANGED <<base, rec, wizard, api, hist>>

EnrollNext ==
  \/ E_signIn
  \/ E_pressIn
  \/ E_prepared
  \/ E_timerTick
  \/ E_pressOut
  \/ \E i \in 1..MaxEnrollStops : E_stopSettles(i)
  \/ \E i \in 1..MaxEnrollStops : E_createVoxKey(i)
  \/ \E i \in 1..MaxEnrollStops : E_uploadFiles(i)
  \/ \E i \in 1..MaxEnrollStops : E_calibrate(i)
  \/ \E i \in 1..MaxEnrollStops : E_json(i)

InitEnroll == Mounted("record")
SpecEnroll == InitEnroll /\ [][EnrollNext]_vars

\* ==================================================== Vox Key wizard
\* the number of samples of a Vox Key, and the completion step
WIZARD_RECORDINGS == 10
COMPLETE_STEP == 11
UserNames == {"", "A", "Ann Lee"}

\* the Recorder is rendered on the recording steps; an open alert is modal
OnRecordingStep ==
  /\ wizard.alertOpen = "none"
  /\ wizard.currentStep >= 1 /\ wizard.currentStep <= WIZARD_RECORDINGS

\* onChangeText of the name input on the intro step
W_setUserName(n) ==
  /\ screen = "wizard" /\ wizard.currentStep = 0
  /\ wizard.alertOpen = "none"
  /\ wizard.userName # n
  /\ wizard' = [wizard EXCEPT !.userName = n]
  /\ UNCHANGED <<base, rec, enroll, api, hist>>

\* handleNameSubmit: the trimmed name must have two characters
W_handleNameSubmit ==
  /\ screen = "wizard" /\ wizard.currentStep = 0
  /\ wizard.alertOpen = "none"
  /\ wizard' =
       CASE wizard.userName = "" ->
              [wizard EXCEPT !.nameError = "Please enter your full name"]
         [] wizard.userName = "A" ->
              [wizard EXCEPT
                 !.nameError = "Name must be at least 2 characters"]
         [] OTHER -> [wizard EXCEPT !.nameError = "", !.currentStep = 1]
  /\ UNCHANGED <<base, rec, enroll, api, hist>>

\* the embedded Recorder starts recording: its duration effect keeps the
\* onRecordingComplete of this render
W_recorderStart ==
  /\ screen = "wizard" /\ OnRecordingStep /\ wizard.recorder = "idle"
  /\ wizard' = [wizard EXCEPT
       !.recorder = "recording",
       !.captured = [currentStep |-> wizard.currentStep,
                     recordings |-> wizard.recordings]]
  /\ UNCHANGED <<base, rec, enroll, api, hist>>

\* the Cancel button of the Recorder (no onRecordingCancel is passed)
W_recorderCancel ==
  /\ screen = "wizard" /\ OnRecordingStep /\ wizard.recorder = "recording"
  /\ wizard' = [wizard EXCEPT !.recorder = "idle",
                              !.captured = IdleWizard.captured]
  /\ UNCHANGED <<base, rec, enroll, api, hist>>

\* handleRecordingComplete, with the synchronous start of uploadVoxKey when
\* the new list has exactly ten entries.  The Recorder's button calls the
\* handler of the current render; its auto-stop, which also fires under an
\* open alert, calls the one its effect has kept.
W_handleRecordingComplete(auto) ==
  /\ screen = "wizard" /\ wizard.recorder = "recording"
  /\ wizard.currentStep >= 1 /\ wizard.currentStep <= WIZARD_RECORDINGS
  /\ auto \/ wizard.alertOpen = "none"
  /\ LET seen == IF auto THEN wizard.captured
                         ELSE [currentStep |-> wizard.currentStep,
                               recordings |-> wizard.recordings]
         newRecordings == seen.recordings + 1
         recorded == [wizard EXCEPT !.recordings = newRecordings,
                                    !.voxKeyProgress = newRecordings,
                                    !.recorder = "idle",
                                    !.captured = IdleWizard.captured]
     IN wizard' =
          IF newRecordings = WIZARD_RECORDINGS
            THEN [recorded EXCEPT !.isUploading = TRUE,
                                  !.currentStep = COMPLETE_STEP,
                                  !.upload = "inflight",
                                  !.uploadSize = newRecordings]
            ELSE [recorded EXCEPT !.currentStep = seen.currentStep + 1]
  /\ UNCHANGED <<base, rec, enroll, api, hist>>

\* await voceraAPI.createVoxKey settles: response.success, or the catch
\* block with the Upload Failed alert; the finally block in both cases
W_uploadVoxKey ==
  /\ screen = "wizard" /\ wizard.upload = "inflight"
  /\ \E success \in BOOLEAN :
       wizard' = IF success
                   THEN [wizard EXCEPT !.hasVoxKey = TRUE,
                                       !.voxKeyProgress = WIZARD_RECORDINGS,
                                       !.alertOpen = "Success!",
                                       !.upload = "ok",
                                       !.isUploading = FALSE]
                   ELSE [wizard EXCEPT !.alertOpen = "Upload Failed",
                                       !.upload = "failed",
                                       !.isUploading = FALSE]
  /\ UNCHANGED <<base, rec, enroll, api, hist>>

\* the Retry button of the Upload Failed alert
W_Retry ==
  /\ screen = "wizard" /\ wizard.alertOpen = "Upload Failed"
  /\ wizard' = [wizard EXCEPT !.isUploading = FALSE,
                              !.currentStep = WIZARD_RECORDINGS,
                              !.alertOpen = "none",
                              !.upload = "none", !.uploadSize = 0]
  /\ UNCHANGED <<base, rec, enroll, api, hist>>

\* handleStartOver from the footer button or from the Upload Failed alert:
\* the confirmation alert
W_handleStartOver ==
  /\ screen = "wizard"
  /\ OnRecordingStep \/ wizard.alertOpen = "Upload Failed"
  /\ wizard' = [wizard EXCEPT !.alertOpen = "Start Over"]
  /\ UNCHANGED <<base, rec, enroll, api, hist>>

\* the two buttons of the confirmation alert
W_confirmStartOver ==
  /\ screen = "wizard" /\ wizard.alertOpen = "Start Over"
  /\ \E destructive \in BOOLEAN :
       wizard' = IF destructive
                   THEN [wizard EXCEPT !.alertOpen = "none",
                                       !.currentStep = 0, !.recordings = 0,
                                       !.userName = "", !.nameError = "",
                                       !.voxKeyProgress = 0,
                                       !.upload = "none", !.uploadSize = 0,
                                       !.recorder = "idle",
                                       !.captured = IdleWizard.captured]
                   ELSE [wizard EXCEPT !.alertOpen = "none"]
  /\ UNCHANGED <<base, rec, enroll, api, hist>>

\* handleBack from the Back button or the hardware back press on a
\* recording step
W_handleBack ==
  /\ screen = "wizard" /\ OnRecordingStep
  /\ wizard' =
       IF wizard.currentStep = 1
         THEN [wizard EXCEPT !.currentStep = 0, !.recorder = "idle",
                             !.captured = IdleWizard.captured]
         ELSE LET newRecordings == Max(wizard.recordings - 1, 0)
              IN [wizard EXCEPT !.currentStep = @ - 1,
                                !.recordings = newRecordings,
                                !.voxKeyProgress = newRecordings]
  /\ UNCHANGED <<base, rec, enroll, api, hist>>

WizardNext ==
  \/ \E n \in UserNames : W_setUserName(n)
  \/ W_handleNameSubmit
  \/ W_recorderStart
  \/ W_recorderCancel
  \/ \E auto \in BOOLEAN : W_handleRecordingComplete(auto)
  \/ W_uploadVoxKey
  \/ W_Retry
  \/ W_handleStartOver
  \/ W_confirmStartOver
  \/ W_handleBack

InitWizard == Mounted("wizard")
SpecWizard == InitWizard /\ [][WizardNext]_vars

\* ================================================== saved-call list
\* add operations explored, and remove operations explored
MaxAdds == 52
MaxRemoves == 1

\* a call as its callers build it, with the id the store filters on
StoredCall(id) ==
  [id |-> id] @@ Call(<<"Ann", "Lee">>, RecUri(1), "hello", 82, TRUE)

removeSavedCall(calls, callId) ==
  SelectSeq(calls, LAMBDA call : call.id # callId)

\* ids a remove is tried with: the newest and the oldest entry, a fixed one
RemoveIds ==
  {2} \cup (IF savedCalls = <<>> THEN {}
            ELSE {savedCalls[1].id, savedCalls[Len(savedCalls)].id})

\* everything but the list
aroundSavedCalls ==
  <<screen, shared, currentTranscript, targetUserId, markerVars, autoVars,
    flight, envVars, alert, rec, enroll, wizard, api>>

S_addSavedCall ==
  /\ screen = "history" /\ hist.nextId <= MaxAdds
  /\ savedCalls' = addSavedCall(savedCalls, StoredCall(hist.nextId))
  /\ hist' = [hist EXCEPT !.nextId = @ + 1]
  /\ UNCHANGED aroundSavedCalls

S_removeSavedCall(callId) ==
  /\ screen = "history" /\ hist.removes < MaxRemoves
  /\ savedCalls' = removeSavedCall(savedCalls, callId)
  /\ hist' = [hist EXCEPT !.removes = @ + 1]
  /\ UNCHANGED aroundSavedCalls

StoreNext ==
  \/ S_addSavedCall
  \/ \E callId \in RemoveIds : S_removeSavedCall(callId)

InitStore == Mounted("history")
SpecStore == InitStore /\ [][StoreNext]_vars

\* ======================================================== API client
ApiMethods == {"createVoxKey", "verifyVoxKey", "getUserProfile",
               "deleteVoxKey"}
\* error.code of a failed request: a timeout, no connection, a non-2xx status
ErrorCodes == {"ECONNABORTED", "ERR_NETWORK", "ERR_BAD_RESPONSE"}

\* the message of the Error each method throws from its catch block
WrappedError(method) ==
  CASE method = "createVoxKey" -> "Failed to create Vox Key"
    [] method = "verifyVoxKey" -> "Failed to verify voice"
    [] method = "getUserProfile" -> "Failed to fetch user profile"
    [] OTHER -> "Failed to delete Vox Key"

\* the interceptor without its look at _retry
interceptorAlwaysResends(code, retry) ==
  IF code = "ECONNABORTED" THEN "resend" ELSE "reject"

\* the rejected handler of the response interceptor
interceptor(code, retry) ==
  IF code = "ECONNABORTED" /\ ~retry THEN "resend" ELSE "reject"

\* a method of VoceraAPI is called: this.client.post / get / delete
P_request(k, method) ==
  /\ screen = "api" /\ api[k].pc = "idle"
  /\ api' = [api EXCEPT ![k] = [IdleRequest EXCEPT !.pc = "sent",
                                                   !.method = method,
                                                   !.attempts = 1]]
  /\ UNCHANGED <<base, rec, enroll, wizard, hist>>

\* the response arrives: the interceptor passes it on, the method returns
\* response.data
P_response(k) ==
  /\ screen = "api" /\ api[k].pc = "sent"
  /\ api' = [api EXCEPT ![k].pc = "idle", ![k].result = "resolved"]
  /\ UNCHANGED <<base, rec, enroll, wizard, hist>>

\* the request fails: the interceptor either marks the config and sends it
\* again through the same client, or rejects, and the catch block of the
\* method throws its own Error
P_error(k, code) ==
  /\ screen = "api" /\ api[k].pc = "sent"
  /\ LET seen == [api[k] EXCEPT !.failures = @ + 1, !.lastError = code]
     IN api' = [api EXCEPT ![k] =
          IF interceptor(code, api[k].retry) = "resend"
            THEN [seen EXCEPT !.retry = TRUE, !.attempts = @ + 1]
            ELSE [seen EXCEPT !.pc = "idle", !.result = "rejected",
                              !.message = WrappedError(api[k].method)]]
  /\ UNCHANGED <<base, rec, enroll, wizard, hist>>

ApiNext ==
  \/ \E k \in 1..MaxRequests, method \in ApiMethods : P_request(k, method)
  \/ \E k \in 1..MaxRequests : P_response(k)
  \/ \E k \in 1..MaxRequests, code \in ErrorCodes : P_error(k, code)

InitApi == Mounted("api")
SpecApi == InitApi /\ [][ApiNext]_vars

\* ================================================================ claims
\* the handler of the current session has returned
HandlerReturned == proc.pc = "done"

\* the handler got as far as issuing both requests of the dispatch: on the
\* marker screen the target subject was found, on the auto screen the
\* segment was extracted
Dispatched ==
  IF screen = "marker" THEN proc.targetUser # NullUser
                       ELSE proc.segmentedAudio # NullRec

\* C1 (cleanup invariant): once the session's handler has returned, with a
\* result shown or after a reset, neither the recording file nor a temp_audio
\* segment is left on the file system.
C1_NoArtifactRemains ==
  HandlerReturned => files = {} /\ tempDir.entries = {}

\* C2 (absence of a verdict is never a pass): an outcome attached after the
\* authenticity service gave no usable answer, or after no segment was
\* analysed, has match = false and confidence = 0.
C2_NoVerdictIsNoPass ==
  (proc.outcome # NullRec /\ proc.authLeg # "ok")
    => (~proc.outcome.match /\ proc.outcome.confidence = 0)

\* C3 (reconciliation on success): an outcome attached after the authenticity
\* service answered {prediction p, confidence c} and the transcription
\* answered t is {match: not p, confidence: c, transcript: t}.
C3_ReconcileOnSuccess ==
  (proc.outcome # NullRec /\ proc.authLeg = "ok" /\ trLeg.state = "ok")
    => /\ proc.outcome.match = ~proc.authValue.prediction
       /\ proc.outcome.confidence = proc.authValue.confidence
       /\ proc.outcome.transcript = trLeg.text

\* a session is capturing, or its stop / processing handler is in flight
SessionActive ==
  \/ recorder.recording
  \/ stopPc # "idle"
  \/ proc.pc \notin {"idle", "done"}

\* the fields of the session in progress
sessionFields == <<currentStep, recordingStartTime, callerPhraseTime,
                   countdown, fullAudioUri, targetUserId, recorder>>

\* C4 (single flight): a start request that completes while a session is
\* capturing or processing leaves every field of that session, and the
\* capture it is running, as they are.
C4_SingleFlight ==
  [][(SessionActive /\ startPc = "preparing" /\ startPc' = "idle")
       => UNCHANGED sessionFields]_vars

C6_LegIsolation ==
  (HandlerReturned /\ Dispatched /\ proc.authLeg = "failed"
     /\ trLeg.state = "ok")
    => /\ proc.outcome # NullRec
       /\ proc.outcome.transcript = FinalTranscript(trLeg.text)

C8_BoundedResponse ==
  (trLeg.state = "pending") ~> HandlerReturned

\* C9 (leg failures are never fatal): a handler that returns after a leg of
\* the dispatch failed has attached an outcome.
C9_LegFailureNotFatal ==
  (HandlerReturned /\ Dispatched
     /\ (trLeg.state = "failed" \/ proc.authLeg = "failed"))
    => proc.outcome # NullRec

\* C10 (cancel during the countdown): the reset of handleResetAnimation,
\* taken while the recording countdown is armed, leaves the device stopped,
\* no interval or start timeout behind, step 'initial', and no file.
C10_CancelInCountdown ==
  [][(resetTimeout /\ ~resetTimeout' /\ recordingTimerRef # 0)
       => /\ ~recorder'.recording
          /\ intervals' = {} /\ startTimeouts' = <<>>
          /\ currentStep' = "initial"
          /\ files' = {} /\ tempDir'.entries = {}]_vars

\* the step in which handleStopRecording learns that the device produced no
\* recording: audioRecorder.stop() threw, or audioRecorder.uri is empty
NoArtifactStep ==
  /\ stopPc = "stopping" /\ stopPc' = "idle"
  /\ proc'.pc = "done"
  /\ (screen = "auto"
        => alert' = "Failed to complete recording. Please try again.")

\* C11 (NoArtifactProduced is fatal): when stopping the device yields no
\* recording, the screen is back at step 'initial' with the recording flag
\* off, the device stopped and no countdown left.
C11_NoArtifactIsFatal ==
  [][NoArtifactStep
       => /\ currentStep' = "initial"
          /\ ~isRecording' /\ ~recorder'.recording
          /\ countdownInterval' = NullRec /\ intervals' = {}]_vars

\* segment extraction was attempted by the handler in flight and returned null
SegmentationFailed ==
  /\ proc.segmentedAudio = NullRec
  /\ IF screen = "marker"
       THEN /\ proc.encl.callerPhraseTime # NullTime
            /\ proc.encl.recordingStartTime # NullTime
            /\ proc.pc \notin {"idle", "segment"}
       ELSE proc.segLeg = "done"

ExtractStep ==
  /\ screen = "auto" /\ proc.pc = "fanout"
  /\ proc.segLeg = "pending" /\ proc'.segLeg = "done"

\* C13 (identity case): for a recording whose estimated duration is at most
\* 5 seconds, extractLast5Seconds returns a segment with the recording's own
\* URI and the estimated duration and creates no copy; what the handler
\* receives is what extractLast5Seconds returns.
C13_IdentityCase ==
  [][ExtractStep =>
       /\ \A dirOk \in BOOLEAN, copyOk \in BOOLEAN, readOk \in BOOLEAN,
             readAgainOk \in BOOLEAN :
            LET d == getAudioDuration(proc.audioUri, readOk)
            IN d <= SEGMENT_SECONDS * 1000 =>
                 extractLast5Seconds(proc.audioUri, dirOk, copyOk, readOk,
                                     readAgainOk)
                   = [segment |-> [uri |-> proc.audioUri, duration |-> d],
                      dir |-> tempDir]
       /\ \E dirOk \in BOOLEAN, copyOk \in BOOLEAN, readOk \in BOOLEAN,
             readAgainOk \in BOOLEAN :
            LET r == extractLast5Seconds(proc.audioUri, dirOk, copyOk, readOk,
                                         readAgainOk)
            IN proc'.segmentedAudio = r.segment /\ tempDir' = r.dir]_vars

\* a 3 second recording has gone through extractLast5Seconds: the handler
\* holds a segment that is the recording itself
C13_Witness ==
  /\ screen = "auto" /\ proc.segLeg = "done"
  /\ proc.segmentedAudio # NullRec
  /\ proc.segmentedAudio.uri = proc.audioUri
  /\ proc.segmentedAudio.duration = 3000
  /\ tempDir.entries = {}

\* C14 (end-anchored case): when extractLast5Seconds returns a copy, which it
\* makes for a recording estimated longer than 5 seconds, the segment's
\* estimated duration is exactly 5 seconds.
C14_EndAnchoredCase ==
  [][(ExtractStep /\ proc'.segmentedAudio # NullRec
        /\ proc'.segmentedAudio.uri # proc.audioUri)
       => proc'.segmentedAudio.duration = SEGMENT_SECONDS * 1000]_vars

\* C15 (null on I/O failure): when the size of the recording cannot be read,
\* extractLast5Seconds returns null.
C15_NullOnIOFailure ==
  (screen = "auto" /\ proc.pc = "fanout" /\ proc.segLeg = "pending")
    => \A dirOk \in BOOLEAN, copyOk \in BOOLEAN, readAgainOk \in BOOLEAN :
         extractLast5Seconds(proc.audioUri, dirOk, copyOk, FALSE,
                             readAgainOk).segment = NullRec

\* C16: a failure of the persistence call (createResult) leaves the delivered
\* outcome as it was (same verdict, confidence and transcript), raises no
\* alert, writes no result row, and the session is on the result step after
\* it: on the marker screen the step is untouched, on the auto screen the
\* handler goes on to setCurrentStep('result').
PersistFails ==
  /\ proc.pc = "persist"
  /\ proc'.persist = "failed"

C16_PersistenceBestEffort ==
  [][PersistFails
       => /\ proc'.outcome = proc.outcome
          /\ verificationResult' = verificationResult
          /\ currentTranscript' = currentTranscript
          /\ alert' = alert
          /\ results' = results
          /\ proc'.pc \notin {"cleanupErr", "idle"}
          /\ currentStep' = IF screen = "auto" THEN "result"
                                               ELSE currentStep]_vars

C16_Witness ==
  /\ proc.persist = "failed"
  /\ proc.outcome # NullRec
  /\ verificationResult = proc.outcome
  /\ currentStep = "result"
  /\ alert = ""

\* C17: when the identity lookup returns nothing for the submitted name, the
\* session is back in its initial step afterwards with no capture running
\* (neither the screen's recording flag nor the device), no countdown armed
\* or pending, and no recording file or extracted segment left behind.
LookupFindsNothing ==
  \/ /\ screen = "auto"
     /\ submit.pc = "lookup" /\ submit'.pc = "idle"
     /\ startTimeouts' = startTimeouts
  \/ /\ screen = "marker"
     /\ proc.pc = "lookup" /\ proc'.pc = "done"

C17_SubjectNotFoundToIdle ==
  [][LookupFindsNothing
       => /\ currentStep' = "initial"
          /\ ~isRecording' /\ ~recorder'.recording
          /\ countdownInterval' = NullRec
          /\ intervals' = {} /\ startTimeouts' = <<>>
          /\ files' = {} /\ tempDir'.entries = {}]_vars

\* C18: when the capture device cannot start (prepareToRecordAsync or
\* record() throws), the session is back in its initial step afterwards: the
\* step is neither 'ready' nor 'recording' and the recording flag is false.
CaptureCannotStart ==
  /\ startPc = "preparing" /\ startPc' = "idle"
  /\ recorder' = recorder

CleanupRuns ==
  \/ /\ proc.pc \in {"cleanup", "cleanupErr"} /\ proc'.pc = "done"
  \/ /\ resetTimeout /\ ~resetTimeout'

CancelTwiceIsOnce ==
  LET st == [recorder |-> recorder, files |-> files,
             isRecording |-> isRecording]
  IN \A size \in Sizes, stopOk, delOk \in BOOLEAN :
       LET once == cancelRecording(st, size, stopOk, delOk)
       IN cancelRecording(once, size, stopOk, delOk) = once

C19_CleanupIdempotent ==
  [][CleanupRuns
       => /\ alert' = alert
          /\ (~tempDir.exists => tempDir' = tempDir)
          /\ \E ioOk \in BOOLEAN : tempDir' = cleanupTempFiles(tempDir, ioOk)
          /\ \A ioOk \in BOOLEAN :
               LET once == cleanupTempFiles(tempDir, ioOk)
               IN cleanupTempFiles(once, ioOk) = once
          /\ CancelTwiceIsOnce]_vars

\* the auto handler has run to its end on a recording short enough to be its
\* own segment: temp_audio/ was never made, and cleanupTempFiles ran on it
C19_Witness ==
  /\ screen = "auto" /\ proc.pc = "done"
  /\ proc.outcome # NullRec
  /\ proc.segmentedAudio # NullRec
  /\ proc.segmentedAudio.uri = proc.audioUri
  /\ ~tempDir.exists
  /\ ~recorder.recording

\* C20: stale-timer guard.  A countdown tick, a delayed countdown start or an
\* auto-stop tick that fires after the session has left the state that armed
\* it (the marker screen is no longer waiting for or listening to the caller;
\* the auto screen has been reset, so no name is submitted) changes no
\* session field and no step, arms nothing, and starts no stop or processing.
StaleTimerFires ==
  \/ /\ M_countdownTick
     /\ currentStep \notin {"waiting-for-caller", "caller-speaking"}
  \/ /\ A_startTimeout
     /\ ~nameSubmitted
  \/ /\ \E i \in intervals : A_intervalTick(i)
     /\ ~nameSubmitted

C20_StaleTimerGuard ==
  [][StaleTimerFires
       => /\ UNCHANGED <<currentStep, countdown, recordingTimeLeft,
                         showRecordingText, recordingTimerRef, stopPc, proc,
                         trLeg>>
          /\ intervals' \subseteq intervals]_vars

\* C21: terminal-state invariant.  Whenever the step is 'result', a
\* verification outcome is attached to the screen and it is the one computed
\* by the handler run of this session (not null, not left from an earlier
\* session).
C21_TerminalHasOutcome ==
  currentStep = "result"
    => /\ verificationResult # NullRec
       /\ verificationResult = proc.outcome

\* C22: the stages of one handler run are strictly ordered.  No leg
\* (transcription or authenticity) is issued while segment extraction is still
\* to finish; persistence has started only with a reconciled outcome; and
\* cleanup at the end of the try block comes only after the persistence step.
ExtractionFinished ==
  IF screen = "auto" THEN proc.segLeg = "done"
                     ELSE proc.pc # "segment"

C22_StrictStageOrder ==
  /\ (trLeg.state # "none" => ExtractionFinished)
  /\ (proc.authLeg # "none" => ExtractionFinished)
  /\ (proc.persist # "none" => proc.outcome # NullRec)
  /\ (proc.pc = "cleanup" => proc.outcome # NullRec)

\* C23: explicit cancellation is synchronous.  When the cancel handler (the X
\* button's handleResetAnimation) returns, the step is 'initial', the device
\* is not recording, the temp directory is cleaned, the name, marker,
\* countdown and artifact fields are cleared, no countdown is armed, and no
\* part of the reset is left to a timer.
C23_CancelIsSynchronous ==
  [][A_handleResetAnimation
       => /\ currentStep' = "initial"
          /\ ~recorder'.recording /\ ~isRecording'
          /\ tempDir'.entries = {}
          /\ callerName' = <<>>
          /\ callerPhraseTime' = NullTime /\ recordingStartTime' = NullTime
          /\ fullAudioUri' = NullUri
          /\ targetUserId' = NullUser /\ currentTargetUserIdRef' = NullUser
          /\ ~nameSubmitted'
          /\ intervals' = {} /\ startTimeouts' = <<>>
          /\ ~resetTimeout']_vars

\* C24: capture exclusivity.  A start (prepareToRecordAsync + record()) is
\* issued to the capture device only while it is not already recording, so a
\* recording in progress is never replaced by a second one.
StartIssued ==
  /\ startPc = "preparing" /\ startPc' = "idle"
  /\ recorder'.made = recorder.made + 1

C24_CaptureExclusive ==
  [][StartIssued => ~recorder.recording]_vars

\* C25: countdown to processing (marker screen).  Setting the marker arms one
\* countdown at 8 while none is armed; while it is armed the count changes
\* only by one tick at a time; the 8th tick (count 1) clears the interval and
\* issues one stop to the device; and the step becomes 'processing' only in
\* the step in which that stop returns, with the device stopped and the
\* returned recording on disk as the artifact handed to processRecording.
MarkerSet ==
  /\ M_handleEnterPressed
  /\ isRecording

CountdownExpires ==
  /\ screen = "marker"
  /\ countdownInterval # NullRec /\ countdownInterval' = NullRec

ProcessingStarts ==
  /\ screen = "marker"
  /\ currentStep # "processing" /\ currentStep' = "processing"

ProcessRecordingStarts ==
  /\ screen = "marker"
  /\ stopPc = "stopping" /\ stopPc' = "idle"
  /\ proc'.pc \notin {"idle", "done"}

Offsets == {0, 2000, 4000, 13000}

C27_OffsetSegmentBounded ==
  (screen = "marker" /\ proc.pc = "segment")
    => \A startMs \in Offsets
              \cup {proc.encl.callerPhraseTime - proc.encl.recordingStartTime},
          dirOk, copyOk, readOk \in BOOLEAN :
         LET r == segmentAudio(proc.audioUri, startMs, 0, FALSE,
                               dirOk, copyOk, readOk)
             total == getAudioDuration(proc.audioUri, readOk)
         IN r.segment # NullRec
              => /\ 0 <= r.segment.duration
                 /\ r.segment.duration <= SEGMENT_SECONDS * 1000
                 /\ startMs + r.segment.duration <= total

\* C28: leg targets.  While the transcription request is pending and the run
\* is in progress, its target proc.audioUri is the full recording of the run;
\* and whenever the authenticity request is pending or has been answered, a
\* segment exists and its URI is the one the extractor produced from that same
\* recording (the copy in temp_audio/, or the recording itself when it is
\* short enough to be its own segment).
AuthenticityIssued ==
  \/ proc.pc \in {"verify", "detect"}
  \/ proc.authLeg # "none"

C28_LegTargets ==
  /\ (trLeg.state = "pending" /\ proc.pc \notin {"idle", "done"})
       => (proc.audioUri # NullUri /\ proc.audioUri[1] = "rec")
  /\ AuthenticityIssued
       => /\ proc.segmentedAudio # NullRec
          /\ proc.segmentedAudio.uri \in {proc.audioUri, SegUri(proc.audioUri)}

C28_Witness ==
  /\ proc.authLeg = "ok"
  /\ proc.segmentedAudio # NullRec
  /\ proc.segmentedAudio.uri = SegUri(proc.audioUri)
  /\ trLeg.state = "ok"

\* C29: findUserByName returns a user or null and never throws.  For the name
\* being looked up and for every name of LookupNames: a name that is not
\* exactly two words gives null whatever the query would do (it is not
\* queried), a name that matches no row gives null, a failing query gives
\* null, and otherwise the matching user is returned.
LookupNames == Names \cup {<<"Ann", "B", "Lee">>, <<"Bo", "Lee">>}

LookupPending ==
  \/ screen = "auto" /\ submit.pc = "lookup"
  \/ screen = "marker" /\ proc.pc = "lookup"

AbortedInFlight ==
  /\ screen = "auto"
  /\ proc.pc \in {"fanout", "verify", "persist"}
  /\ ~isAnimated /\ ~nameSubmitted /\ ~resetTimeout

C30_NoLateAttachment ==
  [][AbortedInFlight
       => /\ (currentStep' = "result" => currentStep = "result")
          /\ verificationResult' = verificationResult
          /\ currentTranscript' = currentTranscript
          /\ savedCalls' = savedCalls]_vars

\* C31: a saved call is marked verified only on a genuine verdict.  Whenever a
\* step puts a call with verified = true at the head of savedCalls, the
\* outcome of the run has match = true and the authenticity service itself
\* answered with prediction = false.
VerifiedCallAdded ==
  /\ savedCalls' # savedCalls
  /\ savedCalls' # <<>>
  /\ Head(savedCalls').verified

C31_VerifiedOnlyOnGenuineVerdict ==
  [][VerifiedCallAdded
       => /\ proc.outcome # NullRec
          /\ proc.outcome.match
          /\ proc.authLeg = "ok"
          /\ ~proc.authValue.prediction]_vars

\* C32: the auto-stop of the Recorder component fires once.  For one
\* recording the duration interval invokes handleStopRecording at most once,
\* and when only the interval stopped the recording the parent gets at most
\* one onRecordingComplete.
C32_AutoStopFiresOnce ==
  /\ rec.autoStops <= 1
  /\ (rec.stopCalls = rec.autoStops) => rec.completes <= 1

\* C33: quiescence of the recorder hook.  Once stopRecording or
\* cancelRecording has returned, with a result, with null or after a caught
\* error, the hook's recording flag and the store's isRecording are false,
\* recordingProgress is 0 and the progress interval is cleared.
HookQuiescent ==
  /\ ~rec.isRecordingState
  /\ ~rec.isRecording
  /\ rec.recordingProgress = 0
  /\ ~rec.intervalRef

C33_HookQuiescence == rec.lastReturn # "none" => HookQuiescent

\* C34: enrollment clip count on the record tab.  The list of recorded clips
\* never has more than totalClips entries, one recording adds at most one
\* clip, and sendClipsToBackend is called at most once for one set of ten
\* clips.
C34_EnrollmentClipCount ==
  /\ enroll.recordedClips <= totalClips
  /\ enroll.clipsThisRecording <= 1
  /\ enroll.sends <= 1

\* C35: outcome of the enrollment upload.  hasVoxKey only ever changes to
\* true, and only in a step of an invocation that has created the vox key,
\* uploaded all totalClips clips and got an ok calibration response; a
\* failed upload leaves hasVoxKey as it was; whenever sendClipsToBackend
\* returns, isUploading is false.
UploadReturned == enroll.returned' # enroll.returned

KeyGranted ==
  \E i \in DOMAIN enroll.stops :
    /\ enroll.stops[i].created
    /\ enroll.stops[i].uploaded = totalClips
    /\ enroll.stops[i].calibrated
    /\ Len(enroll.stops') < Len(enroll.stops)

C35_UploadOutcome ==
  [][/\ enroll.hasVoxKey' # enroll.hasVoxKey
          => enroll.hasVoxKey' /\ KeyGranted /\ enroll.lastUpload' = "ok"
     /\ (UploadReturned /\ enroll.lastUpload' # "ok")
          => enroll.hasVoxKey' = enroll.hasVoxKey
     /\ UploadReturned => ~enroll.isUploading']_vars

\* sendClipsToBackend has returned after the whole chain succeeded
C35_Witness ==
  /\ enroll.lastUpload = "ok" /\ enroll.hasVoxKey /\ ~enroll.isUploading
  /\ enroll.recordedClips = 0

\* C36: consistency of the Vox Key wizard.  The wizard never holds more than
\* ten recordings; on the completion step an upload of exactly ten
\* recordings is in progress or has finished and the wizard holds those ten.
C36_WizardConsistency ==
  /\ wizard.recordings <= WIZARD_RECORDINGS
  /\ wizard.currentStep = COMPLETE_STEP
       => /\ wizard.upload # "none"
          /\ wizard.uploadSize = WIZARD_RECORDINGS
          /\ wizard.recordings = WIZARD_RECORDINGS

\* C37: bound of the saved-call history.  The list never has more than
\* STORE_LIMIT entries and is ordered newest first; an added call becomes the
\* first entry in front of the entries that were there, and when the list
\* was full the last (oldest) entry is the one that is dropped.
NewestFirst ==
  \A i \in 1..Len(savedCalls), j \in 1..Len(savedCalls) :
    i < j => savedCalls[i].id > savedCalls[j].id

CallAdded == hist.nextId' = hist.nextId + 1

C37_SavedCallBound ==
  /\ [](Len(savedCalls) <= STORE_LIMIT /\ NewestFirst)
  /\ [][CallAdded =>
          /\ savedCalls'[1] = StoredCall(hist.nextId)
          /\ IF Len(savedCalls) = STORE_LIMIT
               THEN savedCalls' = <<StoredCall(hist.nextId)>>
                                    \o SubSeq(savedCalls, 1, STORE_LIMIT - 1)
               ELSE savedCalls' = <<StoredCall(hist.nextId)>> \o savedCalls]_vars

\* a call has been added to a full list: the first call is gone
C37_Witness ==
  /\ Len(savedCalls) = STORE_LIMIT
  /\ savedCalls[1].id = STORE_LIMIT + 1
  /\ savedCalls[STORE_LIMIT].id = 2

\* C38: bounded retry of the API client.  A request is sent at most twice,
\* and a second time only after a timeout of the first; a failure that is a
\* timeout of the first sending is answered by sending again, every other
\* failure (a timeout of the retry, or any other error) is rejected to the
\* caller without another sending.
RequestFailed(k) == api[k].failures' = api[k].failures + 1

C38_BoundedRetry ==
  /\ [](\A k \in 1..MaxRequests :
          /\ api[k].attempts <= 2
          /\ api[k].attempts = 2 => api[k].retry)
  /\ [][\A k \in 1..MaxRequests :
          RequestFailed(k) =>
            IF api[k].lastError' = "ECONNABORTED" /\ api[k].attempts = 1
              THEN /\ api[k].attempts' = 2
                   /\ api[k].pc' = "sent"
                   /\ api[k].result' = "none"
              ELSE /\ api[k].attempts' = api[k].attempts
                   /\ api[k].pc' = "idle"
                   /\ api[k].result' = "rejected"]_vars

\* the retry of a timed-out request timed out as well and the caller got the
\* error
C38_Witness ==
  \E k \in 1..MaxRequests :
    /\ api[k].attempts = 2 /\ api[k].failures = 2
    /\ api[k].lastError = "ECONNABORTED"
    /\ api[k].result = "rejected"
    /\ api[k].message = "Failed to verify voice"

=============================================================================
